---- MODULE Spec2Model ----
(***************************************************************************)
(* Hyperdimensional computing core (hdc_core.c) and thermometer encoders   *)
(* (hdc_encode.c) for 128-bit hypervectors on the ATmega328P.              *)
(*                                                                         *)
(* A hypervector hv_t is uint8_t[HV_BYTES]; it is modelled as a function   *)
(* from the byte index 0..HV_BYTES-1 to 0..255.  The caller's buffers are  *)
(* the variable mem, a function from buffer names to hypervectors, so a    *)
(* call whose output pointer equals an input pointer is computed byte by   *)
(* byte on the same storage, as the C loops do.  scal holds the scalar     *)
(* arguments a behaviour fixes for all its calls, and log the calls made   *)
(* so far, each with the buffers as they were when it was entered and the  *)
(* value it returned.  hal is the state of the hardware abstraction layer  *)
(* (hal_adc.h, hal_uart.h): the driver call in progress, its timeout       *)
(* counter and the caller's variables it writes; the vector algebra never  *)
(* touches it.                                                             *)
(***************************************************************************)
EXTENDS Integers, Sequences, FiniteSets, TLC

VARIABLES mem, scal, log, hal

vars == <<mem, scal, log, hal>>

(***************************************************************************)
(* Program constants                                                       *)
(***************************************************************************)
HV_DIMENSIONS == 128
HV_BYTES == 16
THERMO_LEVELS == 128
ADC_MAX == 1023

(***************************************************************************)
(* Bounds of the model                                                     *)
(***************************************************************************)
\* number of irregular sample hypervectors (each comes with its complement)
NumMixed == 1
\* number of library calls made in one behaviour
MaxCalls == 2
\* number of evenly spaced sample readings per range, besides the edge cases
NumSteps == 4
\* length of the values and basis_vectors arrays of hdc_encode_multi_channel
MaxChannels == 2
\* largest explicit timeout argument of the driver calls (0 is the default)
MaxTimeout == 3
\* length of a sequence of hdc_bundle calls on one accumulator
MaxBundles == 3

(***************************************************************************)
(* C integer arithmetic                                                    *)
(***************************************************************************)
Pow2(n) == 2 ^ n

\* conversion to uint8_t
U8(x) == x % 256

\* conversion to uint32_t: x mod 2^32, written on 16-bit halves
U32(x) == ((x \div 65536) % 65536) * 65536 + (x % 65536)

\* bit k of a non-negative integer
Bit(x, k) == (x \div Pow2(k)) % 2

\* x ^ y on uint8_t operands
BitXor(x, y) ==
      ((x + y) % 2)
    + ((x \div 2 + y \div 2) % 2) * 2
    + ((x \div 4 + y \div 4) % 2) * 4
    + ((x \div 8 + y \div 8) % 2) * 8
    + ((x \div 16 + y \div 16) % 2) * 16
    + ((x \div 32 + y \div 32) % 2) * 32
    + ((x \div 64 + y \div 64) % 2) * 64
    + ((x \div 128 + y \div 128) % 2) * 128

\* x & y on uint8_t operands
BitAnd(x, y) ==
      ((x % 2) * (y % 2))
    + (((x \div 2) % 2) * ((y \div 2) % 2)) * 2
    + (((x \div 4) % 2) * ((y \div 4) % 2)) * 4
    + (((x \div 8) % 2) * ((y \div 8) % 2)) * 8
    + (((x \div 16) % 2) * ((y \div 16) % 2)) * 16
    + (((x \div 32) % 2) * ((y \div 32) % 2)) * 32
    + (((x \div 64) % 2) * ((y \div 64) % 2)) * 64
    + (((x \div 128) % 2) * ((y \div 128) % 2)) * 128

\* x | y on uint8_t operands
BitOr(x, y) == x + y - BitAnd(x, y)

\* x | y on int operands below 2^16 (a promoted byte shifted left by up to 7)
BitOr16(x, y) ==
    BitOr(x % 256, y % 256) + 256 * BitOr(x \div 256, y \div 256)

ByteIdx == 0 .. (HV_BYTES - 1)

(***************************************************************************)
(* hdc_core.c                                                              *)
(***************************************************************************)
\* byte - ((byte >> 1) & 0x55U), before it is stored back into byte
popcount8_pairs(b0) == b0 - BitAnd(b0 \div 2, 85)

\* (byte & 0x33U) + ((byte >> 2) & 0x33U), before it is stored back into byte
popcount8_nibbles(b1) == BitAnd(b1, 51) + BitAnd(b1 \div 4, 51)

\* byte + (byte >> 4), before the mask 0x0FU
popcount8_sum(b2) == b2 + (b2 \div 16)

\* a slip: the count of the high nibble is not added
popcount8_low_nibble(b0) ==
    LET b1 == U8(popcount8_pairs(b0))
        b2 == U8(popcount8_nibbles(b1))
    IN  U8(BitAnd(b2, 15))

hdc_popcount8(b0) ==
    LET b1 == U8(popcount8_pairs(b0))
        b2 == U8(popcount8_nibbles(b1))
    IN  U8(BitAnd(popcount8_sum(b2), 15))

\* a slip: the byte itself is added, not its bit count
popcount_step_byte(hv, i, count) == count + hv[i]

\* count + hdc_popcount8(hv[i]), before it is stored back into the uint8_t count
popcount_step(hv, i, count) == count + hdc_popcount8(hv[i])

RECURSIVE popcount_loop(_, _, _)
popcount_loop(hv, i, count) ==
    IF i >= HV_BYTES THEN count
    ELSE popcount_loop(hv, i + 1, U8(popcount_step(hv, i, count)))

\* the sums popcount_step computes in the iterations i, i + 1, ... of the loop
RECURSIVE popcount_sums(_, _, _)
popcount_sums(hv, i, count) ==
    IF i >= HV_BYTES THEN <<>>
    ELSE <<popcount_step(hv, i, count)>>
             \o popcount_sums(hv, i + 1, U8(popcount_step(hv, i, count)))

hdc_popcount(hv) == popcount_loop(hv, 0, 0)

RECURSIVE xor_loop(_, _, _, _, _)
xor_loop(m, r, x, y, i) ==
    IF i >= HV_BYTES THEN m
    ELSE xor_loop([m EXCEPT ![r][i] = BitXor(m[x][i], m[y][i])], r, x, y, i + 1)

RECURSIVE or_loop(_, _, _, _, _)
or_loop(m, r, x, y, i) ==
    IF i >= HV_BYTES THEN m
    ELSE or_loop([m EXCEPT ![r][i] = BitOr(m[x][i], m[y][i])], r, x, y, i + 1)

RECURSIVE and_loop(_, _, _, _, _)
and_loop(m, r, x, y, i) ==
    IF i >= HV_BYTES THEN m
    ELSE and_loop([m EXCEPT ![r][i] = BitAnd(m[x][i], m[y][i])], r, x, y, i + 1)

\* a slip: | written for ^
xor_as_or(m, r, x, y) == or_loop(m, r, x, y, 0)

\* a slip: result is cleared before the loop reads the operands
xor_clears_first(m, r, x, y) ==
    xor_loop([m EXCEPT ![r] = [i \in ByteIdx |-> 0]], r, x, y, 0)

\* hdc_xor(result, a, b) on the buffers named r, x, y of m
hdc_xor(m, r, x, y) == xor_loop(m, r, x, y, 0)

hdc_or(m, r, x, y) == or_loop(m, r, x, y, 0)

\* a slip: | written for &
and_as_or(m, r, x, y) == or_loop(m, r, x, y, 0)

hdc_and(m, r, x, y) == and_loop(m, r, x, y, 0)

RECURSIVE bundle_loop(_, _, _, _)
bundle_loop(m, r, p, i) ==
    IF i >= HV_BYTES THEN m
    ELSE bundle_loop([m EXCEPT ![r][i] = BitOr(m[r][i], m[p][i])], r, p, i + 1)

\* a slip: ^= written for |=
bundle_as_xor(m, r, p) == xor_loop(m, r, r, p, 0)

\* a slip: = written for |=, the pattern overwrites the accumulator
bundle_as_copy(m, r, p) == [m EXCEPT ![r] = m[p]]

\* hdc_bundle(memory, pattern) on the buffers named r, p of m
hdc_bundle(m, r, p) == bundle_loop(m, r, p, 0)

\* distance + hdc_popcount8(a[i] ^ b[i]), before it is stored back into the
\* uint8_t distance
hamming_step(a, b, i, distance) == distance + hdc_popcount8(BitXor(a[i], b[i]))

RECURSIVE hamming_loop(_, _, _, _)
hamming_loop(a, b, i, distance) ==
    IF i >= HV_BYTES THEN distance
    ELSE hamming_loop(a, b, i + 1, U8(hamming_step(a, b, i, distance)))

\* the sums hamming_step computes in the iterations i, i + 1, ... of the loop
RECURSIVE hamming_sums(_, _, _, _)
hamming_sums(a, b, i, distance) ==
    IF i >= HV_BYTES THEN <<>>
    ELSE <<hamming_step(a, b, i, distance)>>
             \o hamming_sums(a, b, i + 1, U8(hamming_step(a, b, i, distance)))

\* a slip: the loop starts at byte 1
hamming_from_one(a, b) == hamming_loop(a, b, 1, 0)

hdc_hamming(a, b) == hamming_loop(a, b, 0, 0)

\* a slip: HV_BYTES written for HV_DIMENSIONS
similarity_of_bytes(a, b) == U8(HV_BYTES - hdc_hamming(a, b))

hdc_similarity(a, b) == U8(HV_DIMENSIONS - hdc_hamming(a, b))

\* memset(hv, 0, HV_BYTES)
hdc_clear(hv) == [i \in ByteIdx |-> 0]

\* memset(hv, value, HV_BYTES)
hdc_fill(hv, value) == [i \in ByteIdx |-> value]

\* a slip: the arguments of memcpy exchanged
copy_reversed(m, d, s) == [m EXCEPT ![s] = m[d]]

\* memcpy(dest, src, HV_BYTES) on the buffers named d, s of m
hdc_copy(m, d, s) == [m EXCEPT ![d] = m[s]]

\* Sequencing: the statements that produce m have run to completion (always
\* true; it makes the evaluation of m happen here, before what follows)
Completed(m) == m = m

\* the buffers of m and one more, named n, holding hv
WithBuf(m, n, hv) == [k \in DOMAIN m \cup {n} |-> IF k = n THEN hv ELSE m[k]]

\* the buffers of m without the one named n (a local that goes out of scope)
WithoutBuf(m, n) == [k \in DOMAIN m \ {n} |-> m[k]]

\* uint8_t dest_byte = (i + byte_shift) % HV_BYTES
permute_dest_byte(i, byte_shift) == U8((i + byte_shift) % HV_BYTES)

\* uint8_t next_byte = (dest_byte + 1U) % HV_BYTES
permute_next_byte(dest_byte) == U8((dest_byte + 1) % HV_BYTES)

\* a slip: next_byte is dest_byte + 1, without the wrap to byte 0
permute_indices_unwrapped(shifts) ==
    IF shifts = 0 THEN {}
    ELSE
        LET s == U8(shifts % HV_DIMENSIONS)
        IN  UNION {{i, permute_dest_byte(i, s \div 8)}
                       \cup (IF s % 8 = 0 THEN {}
                             ELSE {permute_dest_byte(i, s \div 8) + 1}) : i \in ByteIdx}

\* the byte indices at which a call hdc_permute(hv, shifts) accesses hv and
\* temp in its loop: i, dest_byte and, for a sub-byte shift, next_byte
permute_indices(shifts) ==
    IF shifts = 0 THEN {}
    ELSE
        LET s == U8(shifts % HV_DIMENSIONS)
        IN  UNION {{i, permute_dest_byte(i, s \div 8)}
                       \cup (IF s % 8 = 0 THEN {}
                             ELSE {permute_next_byte(permute_dest_byte(i, s \div 8))})
                   : i \in ByteIdx}

\* a slip: the bits shifted out of a byte are carried by bit_shift, not by
\* 8 - bit_shift
RECURSIVE permute_loop_carry(_, _, _, _, _)
permute_loop_carry(m, h, i, byte_shift, bit_shift) ==
    IF i >= HV_BYTES THEN m
    ELSE
        LET dest_byte == U8((i + byte_shift) % HV_BYTES)
            next_byte == U8((dest_byte + 1) % HV_BYTES)
            m1 == [m EXCEPT !["temp"][dest_byte] =
                      U8(BitOr16(m["temp"][dest_byte], m[h][i] * Pow2(bit_shift)))]
            m2 == [m1 EXCEPT !["temp"][next_byte] =
                      U8(BitOr16(m1["temp"][next_byte], m1[h][i] \div Pow2(bit_shift)))]
        IN  IF bit_shift = 0
            THEN permute_loop_carry([m EXCEPT !["temp"][dest_byte] = m[h][i]],
                                    h, i + 1, byte_shift, bit_shift)
            ELSE permute_loop_carry(m2, h, i + 1, byte_shift, bit_shift)

RECURSIVE permute_loop(_, _, _, _, _)
permute_loop(m, h, i, byte_shift, bit_shift) ==
    IF i >= HV_BYTES THEN m
    ELSE
        LET dest_byte == permute_dest_byte(i, byte_shift)
            next_byte == permute_next_byte(dest_byte)
            m1 == [m EXCEPT !["temp"][dest_byte] =
                      U8(BitOr16(m["temp"][dest_byte], m[h][i] * Pow2(bit_shift)))]
            m2 == [m1 EXCEPT !["temp"][next_byte] =
                      U8(BitOr16(m1["temp"][next_byte], m1[h][i] \div Pow2(8 - bit_shift)))]
        IN  IF bit_shift = 0
            THEN permute_loop([m EXCEPT !["temp"][dest_byte] = m[h][i]],
                              h, i + 1, byte_shift, bit_shift)
            ELSE permute_loop(m2, h, i + 1, byte_shift, bit_shift)

\* hdc_permute(hv, shifts) on the buffer named h of m; temp is its local
hdc_permute(m, h, shifts) ==
    IF shifts = 0 THEN m
    ELSE
        LET s == U8(shifts % HV_DIMENSIONS)
            byte_shift == s \div 8
            bit_shift == s % 8
            m0 == WithBuf(m, "temp", hdc_clear(m[h]))
            m1 == permute_loop(m0, h, 0, byte_shift, bit_shift)
        IN  WithoutBuf(hdc_copy(m1, h, "temp"), "temp")

(***************************************************************************)
(* hdc_encode.c                                                            *)
(***************************************************************************)
\* a slip: the cast to uint32_t left out, so the AVR multiplies in 16 bits
thermo_product16(value) == (value * THERMO_LEVELS) % 65536

\* (uint32_t)value * THERMO_LEVELS
thermo_product(value) == U32(U32(value) * THERMO_LEVELS)

\* a slip: the level is rounded down to whole bytes
thermo_level_bytes(value, max_value) ==
    (U8(thermo_product(value) \div max_value) \div 8) * 8

\* (uint8_t)(((uint32_t)value * THERMO_LEVELS) / max_value)
thermo_level(value, max_value) == U8(thermo_product(value) \div max_value)

RECURSIVE thermo_loop(_, _, _, _)
thermo_loop(m, h, i, full_bytes) ==
    IF i >= full_bytes THEN m
    ELSE thermo_loop([m EXCEPT ![h][i] = 255], h, i + 1, full_bytes)

\* a slip: the saturated branch returns without filling the vector
thermometer_unsaturated(m, h, value, max_value) ==
    LET m0 == [m EXCEPT ![h] = hdc_clear(m[h])]
    IN  IF value >= max_value
        THEN m0
        ELSE
            LET level == thermo_level(value, max_value)
                full_bytes == level \div 8
                remaining_bits == level % 8
                m1 == thermo_loop(m0, h, 0, full_bytes)
            IN  IF (full_bytes < HV_BYTES) /\ (remaining_bits > 0)
                THEN [m1 EXCEPT ![h][full_bytes] = U8(Pow2(remaining_bits) - 1)]
                ELSE m1

\* a slip: the partial byte gets the single bit 1 << remaining_bits
thermometer_single_bit(m, h, value, max_value) ==
    LET m0 == [m EXCEPT ![h] = hdc_clear(m[h])]
    IN  IF value >= max_value
        THEN [m0 EXCEPT ![h] = hdc_fill(m0[h], 255)]
        ELSE
            LET level == thermo_level(value, max_value)
                full_bytes == level \div 8
                remaining_bits == level % 8
                m1 == thermo_loop(m0, h, 0, full_bytes)
            IN  IF (full_bytes < HV_BYTES) /\ (remaining_bits > 0)
                THEN [m1 EXCEPT ![h][full_bytes] = U8(Pow2(remaining_bits))]
                ELSE m1

\* hdc_encode_thermometer(hv, value, max_value) on the buffer named h of m
hdc_encode_thermometer(m, h, value, max_value) ==
    LET m0 == [m EXCEPT ![h] = hdc_clear(m[h])]
    IN  IF value >= max_value
        THEN [m0 EXCEPT ![h] = hdc_fill(m0[h], 255)]
        ELSE
            LET level == thermo_level(value, max_value)
                full_bytes == level \div 8
                remaining_bits == level % 8
                m1 == thermo_loop(m0, h, 0, full_bytes)
            IN  IF (full_bytes < HV_BYTES) /\ (remaining_bits > 0)
                THEN [m1 EXCEPT ![h][full_bytes] = U8(Pow2(remaining_bits) - 1)]
                ELSE m1

\* uint8_t full_bytes = level / 8U, for a call that reaches the division
thermo_full_bytes(value, max_value) == thermo_level(value, max_value) \div 8

\* the byte indices at which a call hdc_encode_thermometer(hv, value,
\* max_value) writes hv after the saturation test: i < full_bytes in the loop
\* and full_bytes for the partial byte
thermo_indices(value, max_value) ==
    IF value >= max_value THEN {}
    ELSE
        LET full_bytes == thermo_full_bytes(value, max_value)
            remaining_bits == thermo_level(value, max_value) % 8
        IN  (0 .. (full_bytes - 1))
                \cup (IF (full_bytes < HV_BYTES) /\ (remaining_bits > 0)
                      THEN {full_bytes} ELSE {})

\* a slip: the quotient is computed before the saturation test
thermo_divisors_unguarded(value, max_value) == {max_value}

\* the divisors with which a call of hdc_encode_thermometer evaluates the
\* division of level: none when the saturation test returns first
thermo_divisors(value, max_value) ==
    IF value >= max_value THEN {} ELSE {max_value}

hdc_encode_adc(m, h, adc_value) == hdc_encode_thermometer(m, h, adc_value, ADC_MAX)

\* (uint16_t)x: conversion of an int to uint16_t, modulo 2^16
U16(x) == x % 65536

\* a slip: the int subtraction saturates at the ends of a 16-bit int
IntSaturate(x, int_bits) ==
    IF int_bits = 16
    THEN (IF x > 32767 THEN 32767 ELSE IF x < 0 - 32768 THEN 0 - 32768 ELSE x)
    ELSE x

\* the value of an int expression whose mathematical value is x, where int has
\* int_bits bits: 32 on the test host, where a difference of two int16_t always
\* fits, and 16 on the ATmega328P, where avr-gcc computes the difference with a
\* 16-bit subtract that wraps in two's complement
IntWrap(x, int_bits) ==
    IF int_bits = 16 THEN ((x + 32768) % 65536) - 32768 ELSE x

\* uint16_t range = (uint16_t)(max_val - min_val)
bipolar_range(min_val, max_val, int_bits) == U16(IntWrap(max_val - min_val, int_bits))

\* uint16_t shifted = (uint16_t)(value - min_val)
bipolar_shifted(value, min_val, int_bits) == U16(IntWrap(value - min_val, int_bits))

\* a slip: the value is passed on without subtracting min_val
bipolar_unshifted(m, h, value, min_val, max_val, int_bits) ==
    hdc_encode_thermometer(m, h, U16(value), bipolar_range(min_val, max_val, int_bits))

\* hdc_encode_bipolar(hv, value, min_val, max_val) on the buffer named h of m,
\* compiled for a platform whose int has int_bits bits
hdc_encode_bipolar(m, h, value, min_val, max_val, int_bits) ==
    hdc_encode_thermometer(m, h, bipolar_shifted(value, min_val, int_bits),
                           bipolar_range(min_val, max_val, int_bits))

RECURSIVE multi_channel_loop(_, _, _, _, _, _)
multi_channel_loop(m, r, values, num_channels, basis_vectors, ch) ==
    IF ch >= num_channels THEN m
    ELSE
        LET m1 == hdc_encode_adc(m, "temp", values[ch])
            m2 == hdc_xor(WithBuf(m1, "basis", basis_vectors[ch]), "temp", "temp", "basis")
            m3 == hdc_bundle(m2, r, "temp")
        IN  CASE Completed(m3) ->
                multi_channel_loop(WithoutBuf(m3, "basis"), r, values, num_channels,
                                   basis_vectors, ch + 1)

\* a slip: result is not cleared at entry
multi_channel_uncleared(m, r, values, num_channels, basis_vectors) ==
    multi_channel_loop(m, r, values, num_channels, basis_vectors, 0)

\* hdc_encode_multi_channel(result, values, num_channels, basis_vectors) on the
\* buffer named r of m; the buffer temp of m is the function's local
hdc_encode_multi_channel(m, r, values, num_channels, basis_vectors) ==
    multi_channel_loop([m EXCEPT ![r] = hdc_clear(m[r])], r, values, num_channels,
                       basis_vectors, 0)

(***************************************************************************)
(* hal_adc.h and hal_uart.h                                                *)
(***************************************************************************)
ADC_MAX_VALUE == 1023
ADC_DEFAULT_TIMEOUT == 10000
ADC_ERROR_VALUE == 65535
UART_DEFAULT_TIMEOUT == 50000

\* no driver call made yet.  pc is the position of the driver, fn the function
\* the caller invoked, counter its local, polls the number of times the
\* hardware flag was read in this call, value and data the caller's variables
\* behind p_value and p_data, entry their contents when the call was made, reg
\* the data register as the driver read it, udr0 the bytes written to UDR0,
\* status the status of the _timeout function, ret the value returned to the
\* caller, i, sum, samples the locals of hal_adc_read_averaged, and total the
\* sum of its readings as a natural number
HalIdle ==
    [pc |-> "idle", fn |-> "none", timeout |-> 0, counter |-> 0, polls |-> 0,
     value |-> 0, data |-> 0, entry |-> 0, reg |-> 0, udr0 |-> <<>>,
     status |-> "none", ret |-> "none", i |-> 0, sum |-> 0, samples |-> 0,
     total |-> 0]

\* uint16_t counter = (timeout == 0U) ? DEFAULT_TIMEOUT : timeout
timeout_counter(timeout, default) == IF timeout = 0 THEN default ELSE timeout

\* entry of hal_adc_read_timeout(channel, p_value, timeout), up to the loop;
\* hal_adc_read calls it with its local value = ADC_ERROR_VALUE and timeout 0
adc_start(h, fn, timeout) ==
    [h EXCEPT !.pc = "adc_wait", !.fn = fn, !.timeout = timeout,
              !.counter = timeout_counter(timeout, ADC_DEFAULT_TIMEOUT),
              !.polls = 0, !.ret = "none",
              !.value = IF fn = "hal_adc_read" THEN ADC_ERROR_VALUE ELSE h.value,
              !.entry = IF fn = "hal_adc_read" THEN ADC_ERROR_VALUE ELSE h.value]

\* what the function the caller invoked returns when hal_adc_read_timeout
\* returns status: hal_adc_read discards the status and returns value
adc_return(h, status) ==
    [h EXCEPT !.pc = "idle", !.status = status,
              !.ret = IF h.fn = "hal_adc_read" THEN h.value ELSE status]

\* a slip: the counter is not decremented
adc_poll_undecremented(h, busy, reading) ==
    LET polled == [h EXCEPT !.polls = h.polls + 1]
    IN  IF busy
        THEN IF polled.counter = 0
             THEN adc_return([polled EXCEPT !.value = ADC_ERROR_VALUE], "ADC_ERROR_TIMEOUT")
             ELSE polled
        ELSE adc_return([polled EXCEPT !.value = reading, !.reg = reading], "ADC_OK")

\* a slip: on timeout *p_value is left as it was
adc_poll_silent(h, busy, reading) ==
    LET polled == [h EXCEPT !.polls = h.polls + 1]
    IN  IF busy
        THEN IF polled.counter = 0
             THEN adc_return(polled, "ADC_ERROR_TIMEOUT")
             ELSE [polled EXCEPT !.counter = polled.counter - 1]
        ELSE adc_return([polled EXCEPT !.value = reading, !.reg = reading], "ADC_OK")

\* one evaluation of the loop condition of hal_adc_read_timeout and what
\* follows it: busy is ADSC as the hardware shows it, reading the ADC register
adc_poll(h, busy, reading) ==
    LET polled == [h EXCEPT !.polls = h.polls + 1]
    IN  IF busy
        THEN IF polled.counter = 0
             THEN adc_return([polled EXCEPT !.value = ADC_ERROR_VALUE], "ADC_ERROR_TIMEOUT")
             ELSE [polled EXCEPT !.counter = polled.counter - 1]
        ELSE adc_return([polled EXCEPT !.value = reading, !.reg = reading], "ADC_OK")

\* entry of hal_uart_putc_timeout(data, timeout), up to the loop
putc_start(h, data, timeout) ==
    [h EXCEPT !.pc = "tx_wait", !.fn = "hal_uart_putc_timeout", !.timeout = timeout,
              !.counter = timeout_counter(timeout, UART_DEFAULT_TIMEOUT),
              !.polls = 0, !.ret = "none", !.data = data, !.entry = data]

\* a slip: the byte is written before the wait
putc_poll_eager(h, ready) ==
    LET polled == [h EXCEPT !.polls = h.polls + 1, !.udr0 = <<h.data>>]
    IN  IF ~ready
        THEN IF polled.counter = 0
             THEN [polled EXCEPT !.pc = "idle", !.status = "UART_ERROR_TIMEOUT",
                                 !.ret = "UART_ERROR_TIMEOUT"]
             ELSE [polled EXCEPT !.counter = polled.counter - 1]
        ELSE [polled EXCEPT !.pc = "idle", !.status = "UART_OK", !.ret = "UART_OK"]

\* one evaluation of the loop condition of hal_uart_putc_timeout and what
\* follows it: ready is hal_uart_tx_ready() as the hardware shows it
putc_poll(h, ready) ==
    LET polled == [h EXCEPT !.polls = h.polls + 1]
    IN  IF ~ready
        THEN IF polled.counter = 0
             THEN [polled EXCEPT !.pc = "idle", !.status = "UART_ERROR_TIMEOUT",
                                 !.ret = "UART_ERROR_TIMEOUT"]
             ELSE [polled EXCEPT !.counter = polled.counter - 1]
        ELSE [polled EXCEPT !.pc = "idle", !.status = "UART_OK", !.ret = "UART_OK",
                            !.udr0 = Append(polled.udr0, polled.data)]

\* entry of hal_uart_getc_timeout(p_data, timeout), up to the loop;
\* hal_uart_getc calls it with its local data = 0 and timeout 0
getc_start(h, fn, timeout) ==
    [h EXCEPT !.pc = "rx_wait", !.fn = fn, !.timeout = timeout,
              !.counter = timeout_counter(timeout, UART_DEFAULT_TIMEOUT),
              !.polls = 0, !.ret = "none",
              !.data = IF fn = "hal_uart_getc" THEN 0 ELSE h.data,
              !.entry = IF fn = "hal_uart_getc" THEN 0 ELSE h.data]

\* what the function the caller invoked returns when hal_uart_getc_timeout
\* returns status: hal_uart_getc discards the status and returns data
getc_return(h, status) ==
    [h EXCEPT !.pc = "idle", !.status = status,
              !.ret = IF h.fn = "hal_uart_getc" THEN h.data ELSE status]

\* one evaluation of the loop condition of hal_uart_getc_timeout and what
\* follows it: available is hal_uart_rx_available() as the hardware shows it,
\* received the byte in UDR0
getc_poll(h, available, received) ==
    LET polled == [h EXCEPT !.polls = h.polls + 1]
    IN  IF ~available
        THEN IF polled.counter = 0
             THEN getc_return(polled, "UART_ERROR_TIMEOUT")
             ELSE [polled EXCEPT !.counter = polled.counter - 1]
        ELSE getc_return([polled EXCEPT !.data = received, !.reg = received], "UART_OK")

\* entry of hal_adc_read_averaged(channel, samples): uint32_t sum = 0U, i = 0U
averaged_start(h, samples) ==
    [h EXCEPT !.pc = "avg_loop", !.fn = "hal_adc_read_averaged", !.samples = samples,
              !.i = 0, !.sum = 0, !.total = 0, !.ret = "none"]

\* one iteration of the loop: sum += hal_adc_read(channel); i++, reading being
\* what hal_adc_read returned
averaged_step(h, reading) ==
    [h EXCEPT !.sum = U32(h.sum + reading), !.total = h.total + reading,
              !.i = U8(h.i + 1)]

\* return (uint16_t)(sum / samples)
averaged_return(h) ==
    [h EXCEPT !.pc = "idle", !.ret = U16(h.sum \div h.samples)]

(***************************************************************************)
(* Sample inputs                                                           *)
(***************************************************************************)
ZeroHV == [i \in ByteIdx |-> 0]
OnesHV == [i \in ByteIdx |-> 255]

Complement(hv) == [i \in ByteIdx |-> 255 - hv[i]]

\* an irregular vector: its bytes follow no period
Mixed(k) == [i \in ByteIdx |-> (k * 73 + i * 29 + i * i * k * 7 + 5) % 256]

\* the vector whose only set bit is bit n
UnitBit(n) == [i \in ByteIdx |-> IF i = n \div 8 THEN Pow2(n % 8) ELSE 0]

\* the vector of test_permute_by_8_shifts_one_byte: only byte 0 set
FirstByte == [i \in ByteIdx |-> IF i = 0 THEN 255 ELSE 0]

FillValues == {0, 255, 240, 15}

MixedVectors == {Mixed(k) : k \in 1 .. NumMixed}

Vectors ==
    {hdc_fill(ZeroHV, v) : v \in FillValues}
        \cup MixedVectors
        \cup {Complement(v) : v \in MixedVectors}
        \cup {UnitBit(0), UnitBit(HV_DIMENSIONS - 1), FirstByte}

\* vectors that a rotation changes
PermuteVectors ==
    MixedVectors \cup {UnitBit(n) : n \in {0, 7, 64, HV_DIMENSIONS - 1}} \cup {FirstByte}

Patterns == {hdc_fill(ZeroHV, v) : v \in FillValues} \cup {Mixed(1)}

U16Range == 0 .. 65535

MaxSamples == {0, 1, 2, 3, 100, 127, 128, 129, 255, 1000, 1023, 1024, 32768, 65535}

ValueSamples(max) ==
    ({0, 1, 500, 510, 512, 65534, 65535}
        \cup {max - 1, max, max + 1, max \div 2}
        \cup {(k * max) \div NumSteps : k \in 0 .. NumSteps}) \cap U16Range

AdcSamples == {0, 512, 1022, 1023, 1024}

BasisSamples == {ZeroHV, hdc_fill(ZeroHV, 240), Mixed(1)}

ChannelIdx == 0 .. (MaxChannels - 1)

\* one call of the library: its arguments, the buffers and the caller's arrays
\* at entry, the return value
Call(fn, dst, x, y, k, ret) ==
    [fn |-> fn, dst |-> dst, x |-> x, y |-> y, k |-> k, ret |-> ret, pre |-> mem,
     args |-> scal]

CanCall == Len(log) < MaxCalls

LastCall == log[Len(log)]

(***************************************************************************)
(* Spec: the vector algebra on the caller's buffers a, b and result        *)
(***************************************************************************)
Init ==
    /\ \E a \in Vectors, b \in Patterns :
           mem = [n \in {"a", "b", "result"} |->
                     IF n = "a" THEN a ELSE IF n = "b" THEN b ELSE hdc_clear(a)]
    /\ scal = [max_value |-> 0]
    /\ log = <<>>
    /\ hal = HalIdle

\* the operand pairs of the three-operand calls; the result buffer is "result"
OperandPairs == {<<"a", "a">>, <<"a", "b">>, <<"result", "b">>}

Xor(x, y) ==
    /\ CanCall
    /\ mem' = hdc_xor(mem, "result", x, y)
    /\ log' = Append(log, Call("hdc_xor", "result", x, y, 0, 0))
    /\ UNCHANGED <<scal, hal>>

Or(x, y) ==
    /\ CanCall
    /\ mem' = hdc_or(mem, "result", x, y)
    /\ log' = Append(log, Call("hdc_or", "result", x, y, 0, 0))
    /\ UNCHANGED <<scal, hal>>

And(x, y) ==
    /\ CanCall
    /\ mem' = hdc_and(mem, "result", x, y)
    /\ log' = Append(log, Call("hdc_and", "result", x, y, 0, 0))
    /\ UNCHANGED <<scal, hal>>

Bundle(p) ==
    /\ CanCall
    /\ mem' = hdc_bundle(mem, "result", p)
    /\ log' = Append(log, Call("hdc_bundle", "result", "result", p, 0, 0))
    /\ UNCHANGED <<scal, hal>>

Clear ==
    /\ CanCall
    /\ mem' = [mem EXCEPT !["result"] = hdc_clear(mem["result"])]
    /\ log' = Append(log, Call("hdc_clear", "result", "result", "result", 0, 0))
    /\ UNCHANGED <<scal, hal>>

Fill(v) ==
    /\ CanCall
    /\ mem' = [mem EXCEPT !["result"] = hdc_fill(mem["result"], v)]
    /\ log' = Append(log, Call("hdc_fill", "result", "result", "result", v, 0))
    /\ UNCHANGED <<scal, hal>>

Copy(s) ==
    /\ CanCall
    /\ mem' = hdc_copy(mem, "result", s)
    /\ log' = Append(log, Call("hdc_copy", "result", s, s, 0, 0))
    /\ UNCHANGED <<scal, hal>>

Next ==
    \/ \E p \in OperandPairs : Xor(p[1], p[2])
    \/ \E p \in OperandPairs : Or(p[1], p[2])
    \/ \E p \in OperandPairs : And(p[1], p[2])
    \/ \E p \in {"a", "b"} : Bundle(p)
    \/ Clear
    \/ Fill(255)
    \/ Copy("a")

Spec == Init /\ [][Next]_vars

(***************************************************************************)
(* SpecMetric: the distance functions on two read-only vectors             *)
(***************************************************************************)
InitMetric ==
    /\ \E a \in Vectors, b \in Vectors : mem = [n \in {"a", "b"} |-> IF n = "a" THEN a ELSE b]
    /\ scal = [max_value |-> 0]
    /\ log = <<>>
    /\ hal = HalIdle

Hamming(x, y) ==
    /\ CanCall
    /\ log' = Append(log, Call("hdc_hamming", "none", x, y, 0, hdc_hamming(mem[x], mem[y])))
    /\ UNCHANGED <<mem, scal, hal>>

Similarity(x, y) ==
    /\ CanCall
    /\ log' = Append(log, Call("hdc_similarity", "none", x, y, 0,
                               hdc_similarity(mem[x], mem[y])))
    /\ UNCHANGED <<mem, scal, hal>>

Popcount(x) ==
    /\ CanCall
    /\ log' = Append(log, Call("hdc_popcount", "none", x, x, 0, hdc_popcount(mem[x])))
    /\ UNCHANGED <<mem, scal, hal>>

MetricPairs == {<<"a", "b">>, <<"b", "a">>}

NextMetric ==
    \/ \E p \in MetricPairs : Hamming(p[1], p[2])
    \/ \E p \in MetricPairs : Similarity(p[1], p[2])
    \/ \E x \in {"a", "b"} : Popcount(x)

SpecMetric == InitMetric /\ [][NextMetric]_vars

(***************************************************************************)
(* SpecByte: hdc_popcount8 of one byte                                     *)
(***************************************************************************)
ByteRange == 0 .. 255

InitByte ==
    /\ mem = [n \in {"a"} |-> ZeroHV]
    /\ \E byte \in ByteRange : scal = [byte |-> byte]
    /\ log = <<>>
    /\ hal = HalIdle

Popcount8 ==
    /\ log = <<>>
    /\ log' = Append(log, Call("hdc_popcount8", "none", "none", "none", scal.byte,
                               hdc_popcount8(scal.byte)))
    /\ UNCHANGED <<mem, scal, hal>>

NextByte == Popcount8

SpecByte == InitByte /\ [][NextByte]_vars

(***************************************************************************)
(* SpecPermute: in-place rotations of the buffer result                    *)
(***************************************************************************)
InitPermute ==
    /\ \E v \in PermuteVectors : mem = [n \in {"result"} |-> v]
    /\ scal = [max_value |-> 0]
    /\ log = <<>>
    /\ hal = HalIdle

ShiftRange == 0 .. 255

\* the shifts tried after a rotation by s: among them the one that undoes it
FollowShifts(s) == {1, 8, (HV_DIMENSIONS - (s % HV_DIMENSIONS)) % HV_DIMENSIONS}

Permute(shift) ==
    /\ CanCall
    /\ mem' = hdc_permute(mem, "result", shift)
    /\ log' = Append(log, Call("hdc_permute", "result", "result", "result", shift, 0))
    /\ UNCHANGED <<scal, hal>>

\* every shift for the first rotation, the follow-up shifts after it
ShiftChoices == IF log = <<>> THEN ShiftRange ELSE FollowShifts(LastCall.k)

NextPermute == \E shift \in ShiftChoices : Permute(shift)

SpecPermute == InitPermute /\ [][NextPermute]_vars

(***************************************************************************)
(* SpecEncode: thermometer encodings of readings against one range, into   *)
(* the buffers a and b in turn                                             *)
(***************************************************************************)
InitEncode ==
    /\ mem = [n \in {"a", "b"} |-> IF n = "a" THEN Mixed(1) ELSE OnesHV]
    /\ \E max \in MaxSamples : scal = [max_value |-> max]
    /\ log = <<>>
    /\ hal = HalIdle

NextDst == IF Len(log) % 2 = 0 THEN "a" ELSE "b"

EncodeThermometer(value) ==
    /\ CanCall
    /\ mem' = hdc_encode_thermometer(mem, NextDst, value, scal.max_value)
    /\ log' = Append(log, Call("hdc_encode_thermometer", NextDst, "none", "none", value, 0))
    /\ UNCHANGED <<scal, hal>>

NextEncode == \E value \in ValueSamples(scal.max_value) : EncodeThermometer(value)

SpecEncode == InitEncode /\ [][NextEncode]_vars

(***************************************************************************)
(* SpecBipolar: bipolar encodings of signed readings against one signed    *)
(* range, and thermometer encodings against the width of that range, into  *)
(* the buffers a and b in turn, on either platform                         *)
(***************************************************************************)
Int16Range == (0 - 32768) .. 32767

\* <<min_val, max_val>>: the ranges of the tests, the widest range, two ranges
\* wider than 32767, two empty ranges and two reversed ranges
BipolarRanges ==
    {<<0 - 100, 100>>, <<0 - 50, 150>>, <<0 - 32768, 32767>>, <<0 - 20000, 20000>>,
     <<0, 0>>, <<0 - 7, 0 - 7>>, <<100, 0 - 100>>, <<32767, 0 - 32768>>}

\* widths of int on the ATmega328P and on the test host
IntBits == {16, 32}

BipolarSamples(min, max) ==
    ({min, max, min - 1, max + 1, 0, 0 - 32768, 32767}
        \cup {min + (k * (max - min)) \div NumSteps : k \in 1 .. (NumSteps - 1)})
        \cap Int16Range

\* readings for the direct thermometer calls: the shifted bipolar samples
ShiftedSamples(min, max) ==
    {v - min : v \in BipolarSamples(min, max)} \cap U16Range

InitBipolar ==
    /\ mem = [n \in {"a", "b"} |-> IF n = "a" THEN Mixed(1) ELSE OnesHV]
    /\ \E r \in BipolarRanges, int_bits \in IntBits :
           scal = [min_val |-> r[1], max_val |-> r[2], int_bits |-> int_bits,
                   max_value |-> bipolar_range(r[1], r[2], int_bits)]
    /\ log = <<>>
    /\ hal = HalIdle

EncodeBipolar(value) ==
    /\ CanCall
    /\ mem' = hdc_encode_bipolar(mem, NextDst, value, scal.min_val, scal.max_val,
                                 scal.int_bits)
    /\ log' = Append(log, Call("hdc_encode_bipolar", NextDst, "none", "none", value, 0))
    /\ UNCHANGED <<scal, hal>>

NextBipolar ==
    \/ \E value \in BipolarSamples(scal.min_val, scal.max_val) : EncodeBipolar(value)
    \/ \E value \in ShiftedSamples(scal.min_val, scal.max_val) : EncodeThermometer(value)

SpecBipolar == InitBipolar /\ [][NextBipolar]_vars

(***************************************************************************)
(* SpecIndex: one rotation of the buffer result by any shift, then one     *)
(* thermometer encoding into the buffer b                                  *)
(***************************************************************************)
InitIndex ==
    /\ mem = [n \in {"a", "b", "result"} |-> IF n = "b" THEN OnesHV ELSE Mixed(1)]
    /\ \E max \in MaxSamples : scal = [max_value |-> max]
    /\ log = <<>>
    /\ hal = HalIdle

NextIndex ==
    \/ \E shift \in ShiftRange : log = <<>> /\ Permute(shift)
    \/ \E value \in ValueSamples(scal.max_value) : Len(log) = 1 /\ EncodeThermometer(value)

SpecIndex == InitIndex /\ [][NextIndex]_vars

(***************************************************************************)
(* SpecMulti: one multi-channel encoding into the buffer result            *)
(***************************************************************************)
InitMulti ==
    /\ mem = [n \in {"result", "temp"} |-> IF n = "result" THEN Mixed(1) ELSE OnesHV]
    /\ \E values \in [ChannelIdx -> AdcSamples],
          basis_vectors \in [ChannelIdx -> BasisSamples],
          num_channels \in 0 .. MaxChannels :
           scal = [values |-> values, basis_vectors |-> basis_vectors,
                   num_channels |-> num_channels]
    /\ log = <<>>
    /\ hal = HalIdle

EncodeMultiChannel ==
    /\ log = <<>>
    /\ mem' = hdc_encode_multi_channel(mem, "result", scal.values, scal.num_channels,
                                       scal.basis_vectors)
    /\ log' = Append(log, Call("hdc_encode_multi_channel", "result", "none", "none",
                               scal.num_channels, 0))
    /\ UNCHANGED <<scal, hal>>

NextMulti == EncodeMultiChannel

SpecMulti == InitMulti /\ [][NextMulti]_vars

(***************************************************************************)
(* SpecFrame: calls that read the buffers a and b and the arrays values    *)
(* and basis_vectors, and write the distinct buffer result                 *)
(***************************************************************************)
InitFrame ==
    /\ \E a \in MixedVectors \cup {hdc_fill(ZeroHV, 240)},
          b \in {hdc_fill(ZeroHV, 15), OnesHV} :
           mem = [n \in {"a", "b", "result", "temp"} |->
                     IF n = "a" THEN a
                     ELSE IF n = "b" THEN b
                     ELSE IF n = "result" THEN Complement(Mixed(1)) ELSE OnesHV]
    /\ \E v \in {512, ADC_MAX} :
           scal = [values |-> [k \in ChannelIdx |-> IF k = 0 THEN v ELSE 0],
                   basis_vectors |->
                       [k \in ChannelIdx |->
                           IF k = 0 THEN Mixed(1) ELSE hdc_fill(ZeroHV, 240)],
                   num_channels |-> MaxChannels]
    /\ log = <<>>
    /\ hal = HalIdle

NextFrame ==
    \/ Xor("a", "b")
    \/ Or("a", "b")
    \/ And("a", "b")
    \/ Bundle("b")
    \/ Copy("a")
    \/ Hamming("a", "b")
    \/ Similarity("a", "b")
    \/ Popcount("a")
    \/ EncodeMultiChannel

SpecFrame == InitFrame /\ [][NextFrame]_vars

(***************************************************************************)
(* SpecStateless: the four encoders called in any order on one set of      *)
(* inputs, into the buffers a and b in turn                                *)
(***************************************************************************)
StatelessRanges == {<<0 - 100, 100>>, <<0 - 32768, 32767>>, <<0, 0>>}

InitStateless ==
    /\ mem = [n \in {"a", "b", "temp"} |->
                 IF n = "a" THEN Mixed(1) ELSE IF n = "b" THEN OnesHV ELSE Mixed(1)]
    /\ \E r \in StatelessRanges, int_bits \in IntBits, v \in {512, ADC_MAX} :
           scal = [min_val |-> r[1], max_val |-> r[2], int_bits |-> int_bits,
                   max_value |-> bipolar_range(r[1], r[2], int_bits),
                   values |-> [k \in ChannelIdx |-> IF k = 0 THEN v ELSE 0],
                   basis_vectors |->
                       [k \in ChannelIdx |->
                           IF k = 0 THEN Mixed(1) ELSE hdc_fill(ZeroHV, 240)],
                   num_channels |-> MaxChannels]
    /\ log = <<>>
    /\ hal = HalIdle

EncodeAdc(adc_value) ==
    /\ CanCall
    /\ mem' = hdc_encode_adc(mem, NextDst, adc_value)
    /\ log' = Append(log, Call("hdc_encode_adc", NextDst, "none", "none", adc_value, 0))
    /\ UNCHANGED <<scal, hal>>

\* hdc_encode_multi_channel on the caller's arrays, into the next buffer
EncodeChannels ==
    /\ CanCall
    /\ mem' = hdc_encode_multi_channel(mem, NextDst, scal.values, scal.num_channels,
                                       scal.basis_vectors)
    /\ log' = Append(log, Call("hdc_encode_multi_channel", NextDst, "none", "none",
                               scal.num_channels, 0))
    /\ UNCHANGED <<scal, hal>>

NextStateless ==
    \/ \E value \in {0, scal.max_value \div 2, 65535} : EncodeThermometer(value)
    \/ \E adc_value \in {0, 512, ADC_MAX} : EncodeAdc(adc_value)
    \/ \E value \in {scal.min_val, 0, scal.max_val} : EncodeBipolar(value)
    \/ EncodeChannels

SpecStateless == InitStateless /\ [][NextStateless]_vars

(***************************************************************************)
(* SpecHal: one call of a blocking driver function; every read of the      *)
(* hardware flag is a step, and the hardware decides what it shows         *)
(***************************************************************************)
\* the timeout arguments tried: 0 selects the default
TimeoutSamples == 0 .. MaxTimeout

\* conversion results of the 10-bit ADC
AdcReadings == {0, 512, ADC_MAX_VALUE}

\* bytes sent and received
UartBytes == {0, 65}

InitHal ==
    /\ mem = [n \in {"a"} |-> ZeroHV]
    /\ \E timeout \in TimeoutSamples : scal = [timeout |-> timeout]
    /\ log = <<>>
    /\ hal = [HalIdle EXCEPT !.value = 777, !.data = 90]

NotCalled == log = <<>> /\ hal.pc = "idle" /\ hal.fn = "none"

\* the call ends when the driver is back at idle
Returning(h) ==
    IF h.pc = "idle"
    THEN Append(log, Call(h.fn, "none", "none", "none", h.timeout, h.ret))
    ELSE log

AdcReadTimeout ==
    /\ NotCalled
    /\ hal' = adc_start(hal, "hal_adc_read_timeout", scal.timeout)
    /\ UNCHANGED <<mem, scal, log>>

AdcRead ==
    /\ NotCalled
    /\ scal.timeout = 0
    /\ hal' = adc_start(hal, "hal_adc_read", 0)
    /\ UNCHANGED <<mem, scal, log>>

AdcPoll ==
    /\ hal.pc = "adc_wait"
    /\ \E busy \in BOOLEAN, reading \in AdcReadings : hal' = adc_poll(hal, busy, reading)
    /\ log' = Returning(hal')
    /\ UNCHANGED <<mem, scal>>

UartPutcTimeout ==
    /\ NotCalled
    /\ \E data \in UartBytes : hal' = putc_start(hal, data, scal.timeout)
    /\ UNCHANGED <<mem, scal, log>>

TxPoll ==
    /\ hal.pc = "tx_wait"
    /\ \E ready \in BOOLEAN : hal' = putc_poll(hal, ready)
    /\ log' = Returning(hal')
    /\ UNCHANGED <<mem, scal>>

UartGetcTimeout ==
    /\ NotCalled
    /\ hal' = getc_start(hal, "hal_uart_getc_timeout", scal.timeout)
    /\ UNCHANGED <<mem, scal, log>>

UartGetc ==
    /\ NotCalled
    /\ scal.timeout = 0
    /\ hal' = getc_start(hal, "hal_uart_getc", 0)
    /\ UNCHANGED <<mem, scal, log>>

RxPoll ==
    /\ hal.pc = "rx_wait"
    /\ \E available \in BOOLEAN, received \in UartBytes :
           hal' = getc_poll(hal, available, received)
    /\ log' = Returning(hal')
    /\ UNCHANGED <<mem, scal>>

NextHal ==
    \/ AdcReadTimeout
    \/ AdcRead
    \/ AdcPoll
    \/ UartPutcTimeout
    \/ TxPoll
    \/ UartGetcTimeout
    \/ UartGetc
    \/ RxPoll

SpecHal == InitHal /\ [][NextHal]_vars

(***************************************************************************)
(* SpecBundle: a sequence of hdc_bundle calls that accumulate the patterns *)
(* a and b, in any order and any number of times, into the buffer result   *)
(***************************************************************************)
\* what the accumulator holds before the first call
Accumulators == {ZeroHV, UnitBit(0), hdc_fill(ZeroHV, 240)} \cup MixedVectors

InitBundle ==
    /\ \E memory \in Accumulators, a \in Patterns, b \in Patterns :
           mem = [n \in {"a", "b", "result"} |->
                     IF n = "a" THEN a ELSE IF n = "b" THEN b ELSE memory]
    /\ scal = [max_value |-> 0]
    /\ log = <<>>
    /\ hal = HalIdle

Accumulate(p) ==
    /\ Len(log) < MaxBundles
    /\ mem' = hdc_bundle(mem, "result", p)
    /\ log' = Append(log, Call("hdc_bundle", "result", "result", p, 0, 0))
    /\ UNCHANGED <<scal, hal>>

NextBundle == \E p \in {"a", "b"} : Accumulate(p)

SpecBundle == InitBundle /\ [][NextBundle]_vars

(***************************************************************************)
(* SpecBound: the vectors a and b are bound to the key c with hdc_xor into *)
(* the buffers x and y, and then distances are measured                    *)
(***************************************************************************)
InitBound ==
    /\ \E a \in Vectors, b \in Vectors, c \in Vectors :
           mem = [n \in {"a", "b", "c", "x", "y"} |->
                     CASE n = "a" -> a [] n = "b" -> b [] n = "c" -> c [] OTHER -> ZeroHV]
    /\ scal = [max_value |-> 0]
    /\ log = <<>>
    /\ hal = HalIdle

BindWithKey(dst, x) ==
    /\ mem' = hdc_xor(mem, dst, x, "c")
    /\ log' = Append(log, Call("hdc_xor", dst, x, "c", 0, 0))
    /\ UNCHANGED <<scal, hal>>

Distance(x, y) ==
    /\ log' = Append(log, Call("hdc_hamming", "none", x, y, 0, hdc_hamming(mem[x], mem[y])))
    /\ UNCHANGED <<mem, scal, hal>>

NextBound ==
    \/ log = <<>> /\ BindWithKey("x", "a")
    \/ Len(log) = 1 /\ BindWithKey("y", "b")
    \/ Len(log) = 2 /\ \E p \in {<<"x", "y">>, <<"a", "b">>} : Distance(p[1], p[2])

SpecBound == InitBound /\ [][NextBound]_vars

(***************************************************************************)
(* SpecAlias: the three-operand operations on a and b with the result in   *)
(* a, in b or in a third buffer, and one channel encoded with b as its     *)
(* basis vector and unbound again in place                                 *)
(***************************************************************************)
InitAlias ==
    /\ \E a \in Vectors, b \in Patterns :
           mem = [n \in {"a", "b", "result", "temp"} |->
                     CASE n = "a" -> a [] n = "b" -> b [] OTHER -> ZeroHV]
    /\ \E v \in AdcSamples : scal = [values |-> [ch \in {0} |-> v]]
    /\ log = <<>>
    /\ hal = HalIdle

ResultBuffers == {"a", "b", "result"}

XorInto(dst) ==
    /\ log = <<>>
    /\ mem' = hdc_xor(mem, dst, "a", "b")
    /\ log' = Append(log, Call("hdc_xor", dst, "a", "b", 0, 0))
    /\ UNCHANGED <<scal, hal>>

OrInto(dst) ==
    /\ log = <<>>
    /\ mem' = hdc_or(mem, dst, "a", "b")
    /\ log' = Append(log, Call("hdc_or", dst, "a", "b", 0, 0))
    /\ UNCHANGED <<scal, hal>>

AndInto(dst) ==
    /\ log = <<>>
    /\ mem' = hdc_and(mem, dst, "a", "b")
    /\ log' = Append(log, Call("hdc_and", dst, "a", "b", 0, 0))
    /\ UNCHANGED <<scal, hal>>

\* hdc_encode_multi_channel(result, values, 1, &b)
EncodeSingleChannel ==
    /\ log = <<>>
    /\ mem' = hdc_encode_multi_channel(mem, "result", scal.values, 1,
                                       [ch \in {0} |-> mem["b"]])
    /\ log' = Append(log, Call("hdc_encode_multi_channel", "result", "none", "b", 1, 0))
    /\ UNCHANGED <<scal, hal>>

\* hdc_xor(result, result, b) on the encoded channel
Unbind ==
    /\ Len(log) = 1
    /\ LastCall.fn = "hdc_encode_multi_channel"
    /\ mem' = hdc_xor(mem, "result", "result", "b")
    /\ log' = Append(log, Call("hdc_xor", "result", "result", "b", 0, 0))
    /\ UNCHANGED <<scal, hal>>

NextAlias ==
    \/ \E dst \in ResultBuffers : XorInto(dst)
    \/ \E dst \in ResultBuffers : OrInto(dst)
    \/ \E dst \in ResultBuffers : AndInto(dst)
    \/ EncodeSingleChannel
    \/ Unbind

SpecAlias == InitAlias /\ [][NextAlias]_vars

(***************************************************************************)
(* SpecAveraged: one call of hal_adc_read_averaged; every iteration of its *)
(* loop is a step, and each conversion ends with a reading or times out    *)
(***************************************************************************)
\* the numbers of samples asked for
SampleCounts == {1, 2, 3, 255}

\* what hal_adc_read returns: a reading, or ADC_ERROR_VALUE after a timeout
ConversionResults == {0, ADC_MAX_VALUE, ADC_ERROR_VALUE}

InitAveraged ==
    /\ mem = [n \in {"a"} |-> ZeroHV]
    /\ \E samples \in SampleCounts : scal = [samples |-> samples]
    /\ log = <<>>
    /\ hal = HalIdle

AdcReadAveraged ==
    /\ NotCalled
    /\ hal' = averaged_start(hal, scal.samples)
    /\ UNCHANGED <<mem, scal, log>>

Conversion ==
    /\ hal.pc = "avg_loop"
    /\ hal.i < hal.samples
    /\ \E reading \in ConversionResults : hal' = averaged_step(hal, reading)
    /\ UNCHANGED <<mem, scal, log>>

AveragedReturn ==
    /\ hal.pc = "avg_loop"
    /\ hal.i >= hal.samples
    /\ hal' = averaged_return(hal)
    /\ log' = Returning(hal')
    /\ UNCHANGED <<mem, scal>>

NextAveraged ==
    \/ AdcReadAveraged
    \/ Conversion
    \/ AveragedReturn

SpecAveraged == InitAveraged /\ [][NextAveraged]_vars

(***************************************************************************)
(* The bit view of a hypervector: bit n is sub-bit n % 8 of byte n \div 8  *)
(***************************************************************************)
BitIdx == 0 .. (HV_DIMENSIONS - 1)

BitOf(hv, n) == Bit(hv[n \div 8], n % 8)

SetBits(hv) == {n \in BitIdx : BitOf(hv, n) = 1}

DiffBits(a, b) == {n \in BitIdx : BitOf(a, n) # BitOf(b, n)}

Abs(x) == IF x < 0 THEN 0 - x ELSE x

Called(fn) == log # <<>> /\ LastCall.fn = fn

\* the call before the last one
PrevCall == log[Len(log) - 1]

CalledTwice(fn) == Len(log) >= 2 /\ LastCall.fn = fn /\ PrevCall.fn = fn

(***************************************************************************)
(* Properties of hdc_permute, under SpecPermute                            *)
(***************************************************************************)
\* C1: hdc_permute(hv, shift) moves bit i of the input to bit
\* (i + shift) mod 128 of the output, for every shift 0..255; shifts 0 and 128
\* leave the vector unchanged and a shift of 8 moves byte k to byte (k+1) mod 16.
C1_PermuteRotatesLeft ==
    Called("hdc_permute") =>
        LET before == LastCall.pre["result"]
            after == mem["result"]
            shift == LastCall.k
        IN  /\ \A i \in BitIdx :
                   BitOf(after, (i + shift) % HV_DIMENSIONS) = BitOf(before, i)
            /\ (shift \in {0, HV_DIMENSIONS}) => after = before
            /\ (shift = 8) => \A k \in ByteIdx : after[(k + 1) % HV_BYTES] = before[k]

\* a rotation by more than 128 with a sub-byte part, which carries the top bit
\* of byte 15 into byte 0
C1_Witness ==
    /\ Called("hdc_permute")
    /\ LastCall.k > HV_DIMENSIONS
    /\ LastCall.k % 8 = 1
    /\ LastCall.k \div 8 = HV_BYTES
    /\ LastCall.pre["result"][HV_BYTES - 1] >= 128
    /\ mem["result"][0] % 2 = 1
    /\ mem["result"] # LastCall.pre["result"]

\* C11: a permutation keeps the number of set bits: for every vector and every
\* shift 0..255, hdc_popcount of the rotated vector equals hdc_popcount of the
\* vector before the rotation.
C11_PermutePreservesPopcount ==
    Called("hdc_permute") =>
        /\ hdc_popcount(mem["result"]) = hdc_popcount(LastCall.pre["result"])
        /\ Cardinality(SetBits(mem["result"]))
               = Cardinality(SetBits(LastCall.pre["result"]))

\* an irregular vector rotated by a shift with a sub-byte part, so that every
\* byte is split over two bytes of the output
C11_Witness ==
    /\ Called("hdc_permute")
    /\ LastCall.k % 8 = 3
    /\ LastCall.k > 8
    /\ LastCall.pre["result"] = Mixed(1)
    /\ mem["result"] # Mixed(1)
    /\ hdc_popcount(mem["result"]) \in 1 .. (HV_DIMENSIONS - 1)

(***************************************************************************)
(* Properties of hdc_encode_thermometer, under SpecEncode                  *)
(***************************************************************************)
\* C2: for value < max_value, max_value > 0, the output has exactly the bits
\* 0..level-1 set, level = floor(value * 128 / max_value) in 0..127; the 32-bit
\* product does not wrap and the cast to 8 bits does not truncate; 512 of 1024
\* gives 64 set bits.
C2_ThermometerLevel ==
    (Called("hdc_encode_thermometer") /\ scal.max_value > 0
        /\ LastCall.k < scal.max_value) =>
        LET value == LastCall.k
            max == scal.max_value
            out == mem[LastCall.dst]
            level == (value * THERMO_LEVELS) \div max
        IN  /\ level \in 0 .. (HV_DIMENSIONS - 1)
            /\ thermo_product(value) = value * THERMO_LEVELS
            /\ thermo_level(value, max) = level
            /\ \A n \in BitIdx : BitOf(out, n) = (IF n < level THEN 1 ELSE 0)
            /\ (value = 512 /\ max = 1024) => Cardinality(SetBits(out)) = 64

\* a reading whose product with 128 needs more than 16 bits, encoded to a
\* level with full bytes and a partial byte
C2_Witness ==
    /\ Called("hdc_encode_thermometer")
    /\ LastCall.k < scal.max_value
    /\ LastCall.k * THERMO_LEVELS > 65535
    /\ Cardinality(SetBits(mem[LastCall.dst])) % 8 # 0
    /\ Cardinality(SetBits(mem[LastCall.dst])) > 8

\* C3: for max > 0, value 0 encodes to the all-zero vector and every
\* value >= max (max itself included) to the all-ones vector.
C3_ThermometerBoundaries ==
    (Called("hdc_encode_thermometer") /\ scal.max_value > 0) =>
        /\ (LastCall.k = 0) => mem[LastCall.dst] = ZeroHV
        /\ (LastCall.k >= scal.max_value) => mem[LastCall.dst] = OnesHV

\* a reading above the range saturates a buffer that held something else
C3_Witness ==
    /\ Called("hdc_encode_thermometer")
    /\ scal.max_value > 0
    /\ LastCall.k > scal.max_value
    /\ LastCall.pre[LastCall.dst] \notin {ZeroHV, OnesHV}
    /\ mem[LastCall.dst] = OnesHV

\* C4: for max > 0 and v1 < v2 <= max, the encoding of v1 has at most as many
\* set bits (hdc_popcount) as the encoding of v2.
C4_ThermometerMonotone ==
    (CalledTwice("hdc_encode_thermometer") /\ scal.max_value > 0) =>
        LET v1 == PrevCall.k
            v2 == LastCall.k
            e1 == mem[PrevCall.dst]
            e2 == mem[LastCall.dst]
        IN  /\ (v1 < v2 /\ v2 <= scal.max_value) => hdc_popcount(e1) <= hdc_popcount(e2)
            /\ (v2 < v1 /\ v1 <= scal.max_value) => hdc_popcount(e2) <= hdc_popcount(e1)

\* two unsaturated readings in order, the larger with strictly more bits
C4_Witness ==
    /\ CalledTwice("hdc_encode_thermometer")
    /\ PrevCall.k < LastCall.k
    /\ LastCall.k < scal.max_value
    /\ 0 < hdc_popcount(mem[PrevCall.dst])
    /\ hdc_popcount(mem[PrevCall.dst]) < hdc_popcount(mem[LastCall.dst])

\* C5: for one max > 0 and any two values, the two encodings differ in at most
\* |level1 - level2| bit positions, level being the number of set bits of an
\* encoding; 500 and 510 of 1024 differ in fewer than 10 bits.
C5_ThermometerSimilarity ==
    (CalledTwice("hdc_encode_thermometer") /\ scal.max_value > 0) =>
        LET e1 == mem[PrevCall.dst]
            e2 == mem[LastCall.dst]
            level1 == Cardinality(SetBits(e1))
            level2 == Cardinality(SetBits(e2))
        IN  /\ Cardinality(DiffBits(e1, e2)) <= Abs(level1 - level2)
            /\ ({PrevCall.k, LastCall.k} = {500, 510} /\ scal.max_value = 1024) =>
                   Cardinality(DiffBits(e1, e2)) < 10

\* the encodings of 500 and 510 against 1024, which differ
C5_Witness ==
    /\ CalledTwice("hdc_encode_thermometer")
    /\ scal.max_value = 1024
    /\ PrevCall.k = 500
    /\ LastCall.k = 510
    /\ Cardinality(DiffBits(mem["a"], mem["b"])) = 1

(***************************************************************************)
(* Properties of hdc_encode_bipolar, under SpecBipolar                     *)
(***************************************************************************)
\* C12: for min_val < max_val and min_val <= value <= max_val,
\* hdc_encode_bipolar(value, min_val, max_val) equals
\* hdc_encode_thermometer(value - min_val, max_val - min_val); value = min_val
\* gives the all-zero vector, value = max_val the all-ones vector, and the
\* computed range is the mathematical max_val - min_val, in 1..65535.
C12_BipolarIsShiftedThermometer ==
    /\ (Called("hdc_encode_bipolar") /\ scal.min_val < scal.max_val
            /\ scal.min_val <= LastCall.k /\ LastCall.k <= scal.max_val) =>
           LET value == LastCall.k
               min == scal.min_val
               max == scal.max_val
               out == mem[LastCall.dst]
               range == bipolar_range(min, max, scal.int_bits)
           IN  /\ range = max - min
               /\ range \in 1 .. 65535
               /\ bipolar_shifted(value, min, scal.int_bits) = value - min
               /\ out = hdc_encode_thermometer(LastCall.pre, LastCall.dst, value - min,
                                               max - min)[LastCall.dst]
               /\ (value = min) => out = ZeroHV
               /\ (value = max) => out = OnesHV
    /\ (Len(log) >= 2 /\ scal.min_val < scal.max_val
            /\ {PrevCall.fn, LastCall.fn} = {"hdc_encode_bipolar", "hdc_encode_thermometer"}) =>
           LET bip == IF LastCall.fn = "hdc_encode_bipolar" THEN LastCall ELSE PrevCall
               thr == IF LastCall.fn = "hdc_encode_bipolar" THEN PrevCall ELSE LastCall
           IN  (scal.min_val <= bip.k /\ bip.k <= scal.max_val
                   /\ thr.k = bip.k - scal.min_val) =>
                   mem[bip.dst] = mem[thr.dst]

\* on the 16-bit platform, a reading inside a range wider than 32767 encoded
\* by hdc_encode_bipolar into a, then its offset from min_val encoded by
\* hdc_encode_thermometer into b: both are the same partly set vector
C12_Witness ==
    /\ Len(log) >= 2
    /\ PrevCall.fn = "hdc_encode_bipolar"
    /\ LastCall.fn = "hdc_encode_thermometer"
    /\ scal.int_bits = 16
    /\ scal.max_val - scal.min_val > 32767
    /\ scal.min_val < PrevCall.k
    /\ PrevCall.k < scal.max_val
    /\ LastCall.k = PrevCall.k - scal.min_val
    /\ LastCall.k > 32767
    /\ mem["a"] = mem["b"]
    /\ hdc_popcount(mem["a"]) \in 1 .. (HV_DIMENSIONS - 1)

\* C14: no encoding divides by zero: for every value and max_value, max_value
\* = 0 included, hdc_encode_thermometer never evaluates the division with a
\* zero divisor (max_value = 0 takes the saturation branch and returns the
\* all-ones vector); the same holds for hdc_encode_bipolar when
\* max_val = min_val.
C14_NoDivisionByZero ==
    /\ Called("hdc_encode_thermometer") =>
           /\ 0 \notin thermo_divisors(LastCall.k, scal.max_value)
           /\ (scal.max_value = 0) =>
                  /\ thermo_divisors(LastCall.k, scal.max_value) = {}
                  /\ mem[LastCall.dst] = OnesHV
    /\ Called("hdc_encode_bipolar") =>
           LET shifted == bipolar_shifted(LastCall.k, scal.min_val, scal.int_bits)
               range == bipolar_range(scal.min_val, scal.max_val, scal.int_bits)
           IN  /\ 0 \notin thermo_divisors(shifted, range)
               /\ (scal.max_val = scal.min_val) =>
                      /\ range = 0
                      /\ thermo_divisors(shifted, range) = {}
                      /\ mem[LastCall.dst] = OnesHV

\* on an empty range, hdc_encode_bipolar of a reading below min_val into a,
\* then hdc_encode_thermometer of 0 against 0 into b: both saturate
C14_Witness ==
    /\ Len(log) >= 2
    /\ PrevCall.fn = "hdc_encode_bipolar"
    /\ LastCall.fn = "hdc_encode_thermometer"
    /\ scal.max_val = scal.min_val
    /\ scal.max_value = 0
    /\ PrevCall.k < scal.min_val
    /\ LastCall.k = 0
    /\ PrevCall.pre["a"] = Mixed(1)
    /\ mem["a"] = OnesHV
    /\ mem["b"] = OnesHV

(***************************************************************************)
(* Properties of hdc_encode_multi_channel, under SpecMulti                 *)
(***************************************************************************)
\* bit n of the thermometer encoding of an ADC reading against ADC_MAX
AdcBit(value, n) ==
    IF value >= ADC_MAX THEN 1
    ELSE IF n < (value * THERMO_LEVELS) \div ADC_MAX THEN 1 ELSE 0

\* the channels a call encodes
Channels == 0 .. (scal.num_channels - 1)

\* C6: the result is the bitwise OR over the channels k < n of the encoding of
\* values[k] against 1023 XOR basis[k]: zero for n = 0, the OR of the basis
\* vectors when all values are 0, the OR of their complements when all values
\* are >= 1023.
C6_MultiChannelIsOrOfBound ==
    Called("hdc_encode_multi_channel") =>
        LET out == mem["result"]
            values == scal.values
            basis == scal.basis_vectors
        IN  /\ \A n \in BitIdx :
                   (BitOf(out, n) = 1) <=>
                       (\E k \in Channels : AdcBit(values[k], n) # BitOf(basis[k], n))
            /\ (scal.num_channels = 0) => out = ZeroHV
            /\ (\A k \in Channels : values[k] = 0) =>
                   \A n \in BitIdx :
                       (BitOf(out, n) = 1) <=> (\E k \in Channels : BitOf(basis[k], n) = 1)
            /\ (\A k \in Channels : values[k] >= ADC_MAX) =>
                   \A n \in BitIdx :
                       (BitOf(out, n) = 1) <=> (\E k \in Channels : BitOf(basis[k], n) = 0)

\* two channels, one saturated and one partly set, bound to two different
\* non-zero basis vectors, encoded into a buffer that held something else
C6_Witness ==
    /\ Called("hdc_encode_multi_channel")
    /\ scal.num_channels = 2
    /\ scal.values[0] = 512
    /\ scal.values[1] >= ADC_MAX
    /\ scal.basis_vectors[0] = Mixed(1)
    /\ scal.basis_vectors[1] \notin {ZeroHV, Mixed(1)}
    /\ mem["result"] \notin {ZeroHV, OnesHV, LastCall.pre["result"]}

\* the orders in which n channels can be passed
ChannelOrders(n) ==
    {p \in [0 .. (n - 1) -> 0 .. (n - 1)] :
        \A j, k \in 0 .. (n - 1) : (j # k) => p[j] # p[k]}

\* the array arr with its first n entries in the order p
Reordered(arr, n, p) == [k \in ChannelIdx |-> IF k < n THEN arr[p[k]] ELSE arr[k]]

\* C13: the order of the channels does not affect hdc_encode_multi_channel:
\* the same permutation applied to the values array and to the basis_vectors
\* array yields the identical result vector, for every n and every permutation.
C13_ChannelOrderIrrelevant ==
    Called("hdc_encode_multi_channel") =>
        \A order \in ChannelOrders(scal.num_channels) :
            LET reordered ==
                    hdc_encode_multi_channel(
                        LastCall.pre, "result",
                        Reordered(scal.values, scal.num_channels, order),
                        scal.num_channels,
                        Reordered(scal.basis_vectors, scal.num_channels, order))
            IN  CASE Completed(reordered) -> reordered["result"] = mem["result"]

\* all channels encoded, the first two with different readings bound to
\* different basis vectors, so that exchanging them exchanges two different
\* bound vectors
C13_Witness ==
    /\ Called("hdc_encode_multi_channel")
    /\ scal.num_channels = MaxChannels
    /\ scal.values[0] < scal.values[1]
    /\ scal.values[1] < ADC_MAX
    /\ scal.basis_vectors[0] = hdc_fill(ZeroHV, 240)
    /\ scal.basis_vectors[1] = Mixed(1)
    /\ Cardinality(ChannelOrders(scal.num_channels)) >= 2
    /\ hdc_encode_multi_channel(LastCall.pre, "result", scal.values, 1,
                                scal.basis_vectors)["result"] # mem["result"]
    /\ mem["result"] \notin {ZeroHV, OnesHV}

(***************************************************************************)
(* Properties of hdc_xor and hdc_bundle, under Spec                        *)
(***************************************************************************)
\* C7: binding is self-inverse with the zero vector as identity:
\* xor(xor(a, b), b) = a, xor(a, zero) = a and xor(a, a) = zero.
C7_XorSelfInverse ==
    Called("hdc_xor") =>
        /\ (Len(log) >= 2 /\ PrevCall.fn = "hdc_xor"
                /\ <<PrevCall.x, PrevCall.y>> = <<"a", "b">>
                /\ <<LastCall.x, LastCall.y>> = <<"result", "b">>) =>
               mem["result"] = mem["a"]
        /\ (<<LastCall.x, LastCall.y>> = <<"a", "b">> /\ mem["b"] = ZeroHV) =>
               mem["result"] = mem["a"]
        /\ (<<LastCall.x, LastCall.y>> = <<"a", "a">>) => mem["result"] = ZeroHV

\* hdc_xor(result, a, b) then hdc_xor(result, result, b) on two irregular
\* vectors: the first call changed result, the second restored a
C7_Witness ==
    /\ CalledTwice("hdc_xor")
    /\ <<PrevCall.x, PrevCall.y>> = <<"a", "b">>
    /\ <<LastCall.x, LastCall.y>> = <<"result", "b">>
    /\ mem["b"] = Mixed(1)
    /\ mem["a"] = UnitBit(HV_DIMENSIONS - 1)
    /\ LastCall.pre["result"] \notin {mem["a"], mem["b"], ZeroHV}
    /\ mem["result"] = mem["a"]

\* C10: hdc_bundle is an in-place OR; bundling a pattern twice equals bundling
\* it once, bundling p then q equals bundling q then p, an all-ones accumulator
\* stays all-ones, and 0xF0 and 0x0F patterns bundled into a cleared
\* accumulator give 0xFF in every byte.
C10_BundleIsSaturatingOr ==
    Called("hdc_bundle") =>
        LET before == LastCall.pre["result"]
            after == mem["result"]
            pattern == mem[LastCall.y]
        IN  /\ \A n \in BitIdx :
                   (BitOf(after, n) = 1) <=> (BitOf(before, n) = 1 \/ BitOf(pattern, n) = 1)
            /\ (before = OnesHV) => after = OnesHV
            /\ (Len(log) >= 2 /\ PrevCall.fn = "hdc_bundle") =>
                   LET start == PrevCall.pre
                       swapped == hdc_bundle(hdc_bundle(start, "result", LastCall.y),
                                             "result", PrevCall.y)
                   IN  /\ after = swapped["result"]
                       /\ (PrevCall.y = LastCall.y) => after = before
                       /\ (start["result"] = ZeroHV
                              /\ {mem[PrevCall.y], pattern}
                                     = {hdc_fill(ZeroHV, 240), hdc_fill(ZeroHV, 15)}) =>
                              \A i \in ByteIdx : after[i] = 255

\* test_bundle_accumulates: 0xF0 then 0x0F bundled into a cleared accumulator
C10_Witness ==
    /\ CalledTwice("hdc_bundle")
    /\ PrevCall.pre["result"] = ZeroHV
    /\ <<PrevCall.y, LastCall.y>> = <<"a", "b">>
    /\ mem["a"] = hdc_fill(ZeroHV, 240)
    /\ mem["b"] = hdc_fill(ZeroHV, 15)
    /\ LastCall.pre["result"] = mem["a"]
    /\ mem["result"] = OnesHV

(***************************************************************************)
(* Properties of hdc_hamming and hdc_similarity, under SpecMetric          *)
(***************************************************************************)
CallsOf(fn) == {j \in 1 .. Len(log) : log[j].fn = fn}

SameOperands(c, d) == {c.x, c.y} = {d.x, d.y}

\* C8: hdc_hamming is symmetric, is 0 iff a = b and is 128 iff b is the
\* bitwise complement of a.
C8_HammingSymmetricZeroMax ==
    \A j \in CallsOf("hdc_hamming") :
        /\ (log[j].ret = 0) <=> (mem[log[j].x] = mem[log[j].y])
        /\ (log[j].ret = HV_DIMENSIONS) <=> (mem[log[j].y] = Complement(mem[log[j].x]))
        /\ \A k \in CallsOf("hdc_hamming") :
               (<<log[k].x, log[k].y>> = <<log[j].y, log[j].x>>) => log[k].ret = log[j].ret

\* hdc_hamming(a, b) then hdc_hamming(b, a) on an irregular vector and its
\* complement
C8_Witness ==
    /\ CalledTwice("hdc_hamming")
    /\ <<PrevCall.x, PrevCall.y>> = <<"a", "b">>
    /\ <<LastCall.x, LastCall.y>> = <<"b", "a">>
    /\ mem["a"] = Mixed(1)
    /\ mem["b"] = Complement(Mixed(1))
    /\ LastCall.ret = HV_DIMENSIONS

\* C9: hdc_similarity(a, b) + hdc_hamming(a, b) = 128; hdc_similarity is
\* symmetric and in 0..128, 128 for identical vectors and 0 for complements.
C9_SimilarityPlusHamming ==
    \A j \in CallsOf("hdc_similarity") :
        /\ log[j].ret \in 0 .. HV_DIMENSIONS
        /\ log[j].ret + Cardinality(DiffBits(mem[log[j].x], mem[log[j].y])) = HV_DIMENSIONS
        /\ (mem[log[j].x] = mem[log[j].y]) => log[j].ret = HV_DIMENSIONS
        /\ (mem[log[j].y] = Complement(mem[log[j].x])) => log[j].ret = 0
        /\ \A k \in CallsOf("hdc_hamming") :
               SameOperands(log[k], log[j]) => log[j].ret + log[k].ret = HV_DIMENSIONS
        /\ \A k \in CallsOf("hdc_similarity") :
               SameOperands(log[k], log[j]) => log[k].ret = log[j].ret

\* hdc_hamming(a, b) then hdc_similarity(b, a) on two vectors that are neither
\* equal nor complements
C9_Witness ==
    /\ Len(log) >= 2
    /\ PrevCall.fn = "hdc_hamming"
    /\ LastCall.fn = "hdc_similarity"
    /\ <<PrevCall.x, PrevCall.y>> = <<"a", "b">>
    /\ <<LastCall.x, LastCall.y>> = <<"b", "a">>
    /\ PrevCall.ret > 0
    /\ LastCall.ret > 0
    /\ PrevCall.ret + LastCall.ret = HV_DIMENSIONS

(***************************************************************************)
(* Byte indices of hdc_permute and hdc_encode_thermometer, under SpecIndex *)
(***************************************************************************)
\* C15: no byte index leaves 0..15: in hdc_permute dest_byte and next_byte are
\* in 0..15 for every shift 0..255, and in hdc_encode_thermometer the loop
\* bound full_bytes and the index of the partial byte are at most 15 for every
\* value and max_value.
C15_ByteIndicesInRange ==
    /\ \A j \in CallsOf("hdc_permute") :
           LET s == U8(log[j].k % HV_DIMENSIONS)
           IN  /\ permute_indices(log[j].k) \subseteq ByteIdx
               /\ \A i \in ByteIdx :
                      /\ permute_dest_byte(i, s \div 8) \in ByteIdx
                      /\ permute_next_byte(permute_dest_byte(i, s \div 8)) \in ByteIdx
    /\ \A j \in CallsOf("hdc_encode_thermometer") :
           /\ thermo_indices(log[j].k, scal.max_value) \subseteq ByteIdx
           /\ (log[j].k < scal.max_value) =>
                  thermo_full_bytes(log[j].k, scal.max_value) <= HV_BYTES - 1

\* a rotation by 255, whose dest_byte and next_byte both wrap past byte 15,
\* then the encoding of the largest reading below the range, which writes 15
\* full bytes and the partial byte 15
C15_Witness ==
    /\ Len(log) = 2
    /\ PrevCall.fn = "hdc_permute"
    /\ PrevCall.k = 255
    /\ permute_dest_byte(1, 15) = 0
    /\ permute_next_byte(permute_dest_byte(0, 15)) = 0
    /\ LastCall.fn = "hdc_encode_thermometer"
    /\ LastCall.k = scal.max_value - 1
    /\ thermo_full_bytes(LastCall.k, scal.max_value) = HV_BYTES - 1
    /\ HV_BYTES - 1 \in thermo_indices(LastCall.k, scal.max_value)
    /\ mem["result"] # Mixed(1)
    /\ mem["b"][HV_BYTES - 1] = 127

(***************************************************************************)
(* Properties of hdc_popcount8, under SpecByte                             *)
(***************************************************************************)
\* C16: hdc_popcount8 returns exactly the number of 1 bits, in 0..8, for each
\* of the 256 byte values, and no step of its parallel count underflows or
\* exceeds 8 bits.
C16_Popcount8Exact ==
    Called("hdc_popcount8") =>
        LET byte == LastCall.k
            pairs == popcount8_pairs(byte)
            nibbles == popcount8_nibbles(U8(pairs))
            sum == popcount8_sum(U8(nibbles))
        IN  /\ LastCall.ret = Cardinality({n \in 0 .. 7 : Bit(byte, n) = 1})
            /\ LastCall.ret \in 0 .. 8
            /\ pairs \in ByteRange
            /\ nibbles \in ByteRange
            /\ sum \in ByteRange

\* the byte 0xFF: every pair counts 2, every nibble 4, the sum is 8
C16_Witness ==
    /\ Called("hdc_popcount8")
    /\ LastCall.k = 255
    /\ popcount8_pairs(255) = 170
    /\ popcount8_nibbles(170) = 68
    /\ popcount8_sum(68) = 72
    /\ LastCall.ret = 8

(***************************************************************************)
(* Properties of hdc_popcount and hdc_hamming, under SpecMetric            *)
(***************************************************************************)
\* the running sums of a loop: one per byte, each within 8 bits, the last one
\* being the value returned
SumsFit(sums, ret) ==
    /\ Len(sums) = HV_BYTES
    /\ \A k \in 1 .. Len(sums) : sums[k] \in 0 .. 255
    /\ sums[HV_BYTES] = ret

\* C17: hdc_popcount returns the number of set bits and hdc_hamming the number
\* of differing bit positions, which is the popcount of the XOR; both are in
\* 0..128 and the 8-bit running sum never wraps at any iteration, for every
\* vector, the all-ones vector included.
C17_CountsExactNoWrap ==
    /\ Called("hdc_popcount") =>
           LET hv == mem[LastCall.x]
           IN  /\ LastCall.ret = Cardinality(SetBits(hv))
               /\ LastCall.ret \in 0 .. HV_DIMENSIONS
               /\ SumsFit(popcount_sums(hv, 0, 0), LastCall.ret)
    /\ Called("hdc_hamming") =>
           LET a == mem[LastCall.x]
               b == mem[LastCall.y]
           IN  /\ LastCall.ret = Cardinality(DiffBits(a, b))
               /\ LastCall.ret = hdc_popcount([i \in ByteIdx |-> BitXor(a[i], b[i])])
               /\ LastCall.ret \in 0 .. HV_DIMENSIONS
               /\ SumsFit(hamming_sums(a, b, 0, 0), LastCall.ret)

\* hdc_popcount of the all-ones vector, then hdc_hamming of it against the
\* all-zero vector: both running sums end at 128
C17_Witness ==
    /\ Len(log) >= 2
    /\ PrevCall.fn = "hdc_popcount"
    /\ LastCall.fn = "hdc_hamming"
    /\ PrevCall.x = "a"
    /\ mem["a"] = OnesHV
    /\ mem["b"] = ZeroHV
    /\ PrevCall.ret = HV_DIMENSIONS
    /\ LastCall.ret = HV_DIMENSIONS
    /\ popcount_sums(mem["a"], 0, 0)[HV_BYTES] = HV_DIMENSIONS

(***************************************************************************)
(* Properties of hdc_and and hdc_or, under Spec                            *)
(***************************************************************************)
\* C18: hdc_and is commutative and idempotent (and(x, y) = and(y, x),
\* and(x, x) = x), and(x, ones) = x and and(x, zero) = zero; or(x, zero) = x
\* and or with the all-ones vector yields all-ones.
C18_AndOrLaws ==
    /\ Called("hdc_and") =>
           LET x == LastCall.pre[LastCall.x]
               y == LastCall.pre[LastCall.y]
               out == mem["result"]
               swapped == hdc_and(LastCall.pre, "result", LastCall.y, LastCall.x)
           IN  /\ CASE Completed(swapped) -> swapped["result"] = out
               /\ (x = y) => out = x
               /\ (y = OnesHV) => out = x
               /\ (x = OnesHV) => out = y
               /\ (y = ZeroHV \/ x = ZeroHV) => out = ZeroHV
    /\ Called("hdc_or") =>
           LET x == LastCall.pre[LastCall.x]
               y == LastCall.pre[LastCall.y]
               out == mem["result"]
           IN  /\ (y = ZeroHV) => out = x
               /\ (x = ZeroHV) => out = y
               /\ (y = OnesHV \/ x = OnesHV) => out = OnesHV

\* hdc_and(result, a, b) on an irregular vector and the half-filled pattern
\* 0xF0: the result is neither operand nor zero, and equals and(b, a)
C18_Witness ==
    /\ Called("hdc_and")
    /\ <<LastCall.x, LastCall.y>> = <<"a", "b">>
    /\ mem["a"] = Mixed(1)
    /\ mem["b"] = hdc_fill(ZeroHV, 240)
    /\ mem["result"] \notin {mem["a"], mem["b"], ZeroHV}

(***************************************************************************)
(* Frame of the calls, under SpecFrame                                     *)
(***************************************************************************)
\* the buffers as call j left them
PostOf(j) == IF j < Len(log) THEN log[j + 1].pre ELSE mem

\* the caller's arrays as call j left them
ArgsAfter(j) == IF j < Len(log) THEN log[j + 1].args ELSE scal

\* C19: read-only inputs are never modified: hdc_xor, hdc_or and hdc_and with
\* a distinct result buffer, hdc_hamming, hdc_similarity and hdc_popcount
\* leave their input vectors unchanged, hdc_bundle leaves the pattern
\* unchanged, hdc_copy leaves src unchanged, and hdc_encode_multi_channel
\* leaves the values array and every basis vector unchanged.
C19_InputsUnchanged ==
    \A j \in 1 .. Len(log) :
        LET c == log[j]
            post == PostOf(j)
        IN  /\ (c.fn \in {"hdc_xor", "hdc_or", "hdc_and"} /\ c.dst \notin {c.x, c.y}) =>
                   (post[c.x] = c.pre[c.x] /\ post[c.y] = c.pre[c.y])
            /\ (c.fn \in {"hdc_hamming", "hdc_similarity", "hdc_popcount"}) =>
                   (post[c.x] = c.pre[c.x] /\ post[c.y] = c.pre[c.y])
            /\ (c.fn = "hdc_bundle" /\ c.y # c.dst) => post[c.y] = c.pre[c.y]
            /\ (c.fn = "hdc_copy" /\ c.x # c.dst) => post[c.x] = c.pre[c.x]
            /\ (c.fn = "hdc_encode_multi_channel") =>
                   /\ ArgsAfter(j).values = c.args.values
                   /\ ArgsAfter(j).basis_vectors = c.args.basis_vectors
                   /\ \A n \in (DOMAIN post) \ {c.dst, "temp"} : post[n] = c.pre[n]

\* hdc_encode_multi_channel, then hdc_copy(result, a): each call changed
\* result and left a, b and the arrays as they were
C19_Witness ==
    /\ Len(log) = 2
    /\ PrevCall.fn = "hdc_encode_multi_channel"
    /\ LastCall.fn = "hdc_copy"
    /\ LastCall.x = "a"
    /\ LastCall.pre["result"] # PrevCall.pre["result"]
    /\ mem["result"] # LastCall.pre["result"]
    /\ mem["result"] = mem["a"]
    /\ mem["a"] = PrevCall.pre["a"]
    /\ mem["b"] = PrevCall.pre["b"]
    /\ scal = PrevCall.args

(***************************************************************************)
(* The encoders keep no state, under SpecStateless                         *)
(***************************************************************************)
\* buffers that hold nothing of the behaviour: no earlier call, zeroed storage
FreshMem == [n \in {"a", "b", "temp"} |-> ZeroHV]

\* call c made on fresh buffers, with the inputs c was given
OnFreshMem(c) ==
    CASE c.fn = "hdc_encode_thermometer" ->
             hdc_encode_thermometer(FreshMem, c.dst, c.k, c.args.max_value)
      [] c.fn = "hdc_encode_adc" -> hdc_encode_adc(FreshMem, c.dst, c.k)
      [] c.fn = "hdc_encode_bipolar" ->
             hdc_encode_bipolar(FreshMem, c.dst, c.k, c.args.min_val, c.args.max_val,
                                c.args.int_bits)
      [] c.fn = "hdc_encode_multi_channel" ->
             hdc_encode_multi_channel(FreshMem, c.dst, c.args.values, c.k,
                                      c.args.basis_vectors)

\* the vector call j left in its output buffer
OutputOf(j) == PostOf(j)[log[j].dst]

\* C20: the encoders keep no hidden state: the output of
\* hdc_encode_thermometer, hdc_encode_adc, hdc_encode_bipolar and
\* hdc_encode_multi_channel depends only on the explicit inputs, not on the
\* previous contents of the output buffer nor on any earlier call; two calls
\* with equal inputs, made on different buffer contents and after different
\* histories, produce equal outputs.
C20_EncodersStateless ==
    \A j \in 1 .. Len(log) :
        LET fresh == OnFreshMem(log[j])
        IN  /\ CASE Completed(fresh) -> OutputOf(j) = fresh[log[j].dst]
            /\ \A i \in 1 .. Len(log) :
                   (log[i].fn = log[j].fn /\ log[i].k = log[j].k
                       /\ log[i].args = log[j].args) => OutputOf(i) = OutputOf(j)

\* hdc_encode_multi_channel into a, then with the same arrays into b, which
\* held something else and is written after a different history: both
\* outputs are the same partly set vector
C20_Witness ==
    /\ Len(log) = 2
    /\ PrevCall.fn = "hdc_encode_multi_channel"
    /\ LastCall.fn = "hdc_encode_multi_channel"
    /\ PrevCall.dst # LastCall.dst
    /\ PrevCall.pre[PrevCall.dst] # LastCall.pre[LastCall.dst]
    /\ PrevCall.pre["temp"] # LastCall.pre["temp"]
    /\ mem["a"] = mem["b"]
    /\ mem["a"] \notin {ZeroHV, OnesHV, PrevCall.pre["a"]}

(***************************************************************************)
(* hdc_encode_bipolar on the two platforms, under SpecBipolar              *)
(***************************************************************************)
\* C21: hdc_encode_bipolar is deterministic across platforms: for every int16
\* value, min_val and max_val, the uint16 range and shifted values, and so the
\* resulting hypervector, are the same when the two subtractions are made in
\* 16-bit int arithmetic with wrap-around as when they are made in 32-bit int
\* arithmetic.
C21_BipolarSameOnBothPlatforms ==
    Called("hdc_encode_bipolar") =>
        LET value == LastCall.k
            min == scal.min_val
            max == scal.max_val
            target == hdc_encode_bipolar(LastCall.pre, LastCall.dst, value, min, max, 16)
            host == hdc_encode_bipolar(LastCall.pre, LastCall.dst, value, min, max, 32)
        IN  /\ bipolar_range(min, max, 16) = bipolar_range(min, max, 32)
            /\ bipolar_shifted(value, min, 16) = bipolar_shifted(value, min, 32)
            /\ CASE Completed(target) -> target[LastCall.dst] = mem[LastCall.dst]
            /\ CASE Completed(host) -> host[LastCall.dst] = mem[LastCall.dst]

\* on the 16-bit platform, a reversed range whose width and a reading whose
\* offset both leave the 16-bit int, encoded into a buffer that held
\* something else
C21_Witness ==
    /\ Called("hdc_encode_bipolar")
    /\ scal.int_bits = 16
    /\ scal.max_val - scal.min_val < 0 - 32768
    /\ LastCall.k - scal.min_val < 0 - 32768
    /\ IntWrap(LastCall.k - scal.min_val, 16) # LastCall.k - scal.min_val
    /\ LastCall.pre[LastCall.dst] = Mixed(1)
    /\ mem[LastCall.dst] = OnesHV

(***************************************************************************)
(* The blocking driver functions, under SpecHal                            *)
(***************************************************************************)
\* the default timeout of the driver function fn
DefaultTimeout(fn) ==
    IF fn \in {"hal_adc_read_timeout", "hal_adc_read"}
    THEN ADC_DEFAULT_TIMEOUT ELSE UART_DEFAULT_TIMEOUT

\* the call made has returned
Returned == hal.fn # "none" /\ hal.pc = "idle"

TimedOut == Returned /\ hal.status \in {"ADC_ERROR_TIMEOUT", "UART_ERROR_TIMEOUT"}

\* C22: every blocking loop has a timeout guard: hal_adc_read_timeout,
\* hal_uart_putc_timeout and hal_uart_getc_timeout each end after at most
\* counter + 1 reads of the hardware flag even if the flag never changes,
\* counter being the timeout argument, or the default (10000 for the ADC,
\* 50000 for the UART) when the argument is 0.
C22_PollsBounded ==
    (hal.fn # "none") =>
        LET counter == timeout_counter(hal.timeout, DefaultTimeout(hal.fn))
        IN  /\ (hal.timeout = 0 /\ hal.pc = "adc_wait") => counter = 10000
            /\ (hal.timeout = 0 /\ hal.pc \in {"tx_wait", "rx_wait"}) => counter = 50000
            /\ hal.polls <= counter + 1
            /\ (hal.pc # "idle") =>
                   (hal.polls <= counter /\ hal.counter = counter - hal.polls)
            /\ TimedOut => hal.polls = counter + 1

\* hal_uart_getc_timeout with the default timeout, the receiver never
\* showing a byte: the call has returned at the read number 50001
C22_Witness ==
    /\ TimedOut
    /\ hal.fn = "hal_uart_getc_timeout"
    /\ hal.timeout = 0
    /\ hal.polls = UART_DEFAULT_TIMEOUT + 1
    /\ hal.counter = 0

C24_ThermometerStrictOrder ==
    (CalledTwice("hdc_encode_thermometer") /\ scal.max_value > 0) =>
        LET max == scal.max_value
            v1 == PrevCall.k
            v2 == LastCall.k
            count1 == hdc_popcount(mem[PrevCall.dst])
            count2 == hdc_popcount(mem[LastCall.dst])
        IN  /\ (v1 < v2 /\ v2 <= max /\ (v2 - v1) * THERMO_LEVELS >= max) => count1 < count2
            /\ (v2 < v1 /\ v1 <= max /\ (v1 - v2) * THERMO_LEVELS >= max) => count2 < count1

\* 500 and 510 of 1000 are a little more than one level apart and their
\* encodings have 64 and 65 set bits
C24_Witness ==
    /\ CalledTwice("hdc_encode_thermometer")
    /\ scal.max_value = 1000
    /\ PrevCall.k = 500
    /\ LastCall.k = 510
    /\ hdc_popcount(mem[PrevCall.dst]) = 64
    /\ hdc_popcount(mem[LastCall.dst]) = 65

(***************************************************************************)
(* The accumulator of hdc_bundle, under SpecBundle                         *)
(***************************************************************************)
\* the patterns bundled by the calls 1 .. j
PatternsUpTo(j) == {log[i].y : i \in 1 .. j}

\* the patterns of a set bundled once each, b before a, into the accumulator
\* of memory m
BundledOnce(m, used) ==
    LET withB == IF "b" \in used THEN hdc_bundle(m, "result", "b") ELSE m
    IN  IF "a" \in used THEN hdc_bundle(withB, "result", "a") ELSE withB

\* C25: over any sequence of hdc_bundle calls on one memory vector, after
\* every call the accumulator is the bitwise OR of its initial content and all
\* patterns bundled so far; a bit once set is never cleared, the popcount
\* never decreases, and the final content does not depend on the order or the
\* multiplicity of the patterns.
C25_AccumulatorInvariant ==
    (log # <<>>) =>
        LET initial == log[1].pre
        IN  /\ \A j \in 1 .. Len(log) :
                   LET before == log[j].pre["result"]
                       after == PostOf(j)["result"]
                   IN  /\ log[j].fn = "hdc_bundle"
                       /\ \A n \in BitIdx :
                              (BitOf(after, n) = 1) <=>
                                  \/ BitOf(initial["result"], n) = 1
                                  \/ \E p \in PatternsUpTo(j) : BitOf(initial[p], n) = 1
                       /\ \A n \in BitIdx : (BitOf(before, n) = 1) => (BitOf(after, n) = 1)
                       /\ hdc_popcount(before) <= hdc_popcount(after)
            /\ LET once == BundledOnce(initial, PatternsUpTo(Len(log)))
               IN  CASE Completed(once) -> mem["result"] = once["result"]

\* a, b and a again bundled into an accumulator that held one bit, the second
\* call adding bits and the third adding none
C25_Witness ==
    /\ Len(log) = 3
    /\ <<log[1].y, log[2].y, log[3].y>> = <<"a", "b", "a">>
    /\ log[1].pre["result"] = UnitBit(0)
    /\ mem["a"] = hdc_fill(ZeroHV, 240)
    /\ mem["b"] = Mixed(1)
    /\ hdc_popcount(log[2].pre["result"]) < hdc_popcount(log[3].pre["result"])
    /\ mem["result"] = log[3].pre["result"]
    /\ mem["result"] \notin {mem["a"], mem["b"], OnesHV}

(***************************************************************************)
(* Composition of rotations, under SpecPermute                             *)
(***************************************************************************)
\* C26: for every a and shifts s, t in 0..127, hdc_permute by s and then by t
\* gives what a single hdc_permute by (s + t) mod 128 gives, and hdc_permute
\* by s and then by (128 - s) mod 128 restores a.
C26_PermuteComposes ==
    (CalledTwice("hdc_permute")
        /\ PrevCall.k \in 0 .. (HV_DIMENSIONS - 1)
        /\ LastCall.k \in 0 .. (HV_DIMENSIONS - 1)) =>
        LET s == PrevCall.k
            t == LastCall.k
            a == PrevCall.pre
            single == hdc_permute(a, "result", (s + t) % HV_DIMENSIONS)
        IN  /\ CASE Completed(single) -> mem["result"] = single["result"]
            /\ (t = (HV_DIMENSIONS - s) % HV_DIMENSIONS) => mem["result"] = a["result"]

\* an irregular vector rotated by 45 and then by 83, which restores it, the
\* rotation by 45 having changed it
C26_Witness ==
    /\ CalledTwice("hdc_permute")
    /\ PrevCall.k = 45
    /\ LastCall.k = 83
    /\ PrevCall.pre["result"] = Mixed(1)
    /\ LastCall.pre["result"] # Mixed(1)
    /\ mem["result"] = Mixed(1)

(***************************************************************************)
(* Binding keeps distances, under SpecBound                                *)
(***************************************************************************)
\* C27: binding both operands with the same key preserves the distance:
\* hdc_hamming(hdc_xor(a, c), hdc_xor(b, c)) = hdc_hamming(a, b) for all
\* a, b, c.
C27_BindingKeepsDistance ==
    /\ (Len(log) >= 2) => hdc_hamming(mem["x"], mem["y"]) = hdc_hamming(mem["a"], mem["b"])
    /\ (Called("hdc_hamming") /\ LastCall.x = "x") =>
           LastCall.ret = Cardinality(DiffBits(mem["a"], mem["b"]))

\* the distance of two bound vectors measured: the key changed both vectors,
\* and they are neither equal nor complementary
C27_Witness ==
    /\ Called("hdc_hamming")
    /\ <<LastCall.x, LastCall.y>> = <<"x", "y">>
    /\ mem["c"] = Mixed(1)
    /\ mem["a"] = UnitBit(0)
    /\ mem["b"] = hdc_fill(ZeroHV, 240)
    /\ mem["x"] # mem["a"]
    /\ mem["y"] # mem["b"]
    /\ LastCall.ret = 65

(***************************************************************************)
(* hdc_encode_bipolar outside the range, under SpecBipolar                 *)
(***************************************************************************)
\* C28: hdc_encode_bipolar is monotone over the whole int16 value range, not
\* only inside [min_val, max_val]: for every min_val < max_val and all
\* value1 <= value2, the encoding of value1 has at most as many set bits as
\* the encoding of value2; in particular a value below min_val never encodes
\* to more set bits than min_val itself.
C28_BipolarMonotoneEverywhere ==
    (CalledTwice("hdc_encode_bipolar") /\ scal.min_val < scal.max_val) =>
        LET value1 == PrevCall.k
            value2 == LastCall.k
            count1 == hdc_popcount(mem[PrevCall.dst])
            count2 == hdc_popcount(mem[LastCall.dst])
        IN  /\ (value1 <= value2) => count1 <= count2
            /\ (value2 <= value1) => count2 <= count1

\* the reading just below min_val, whose offset from min_val is 65535 as a
\* uint16_t, encodes to the all-ones vector, and min_val to the all-zero one
C28_BelowMinSaturates ==
    /\ CalledTwice("hdc_encode_bipolar")
    /\ <<scal.min_val, scal.max_val>> = <<0 - 100, 100>>
    /\ PrevCall.k = scal.min_val - 1
    /\ LastCall.k = scal.min_val
    /\ bipolar_shifted(PrevCall.k, scal.min_val, scal.int_bits) = 65535
    /\ hdc_popcount(mem[PrevCall.dst]) = HV_DIMENSIONS
    /\ hdc_popcount(mem[LastCall.dst]) = 0

(***************************************************************************)
(* In-place use of the three-operand operations, under SpecAlias           *)
(***************************************************************************)
\* call c made on the memory m with the result in the buffer temp, which is
\* neither operand
WithDistinctResult(c, m) ==
    CASE c.fn = "hdc_xor" -> hdc_xor(m, "temp", c.x, c.y)
      [] c.fn = "hdc_or" -> hdc_or(m, "temp", c.x, c.y)
      [] c.fn = "hdc_and" -> hdc_and(m, "temp", c.x, c.y)

\* C29: in-place use of the three-operand operations is safe: hdc_xor, hdc_or
\* and hdc_and with the result buffer aliasing a or b produce the same bytes
\* as with a distinct result buffer; hdc_encode_multi_channel relies on this
\* in hdc_xor(temp, temp, basis), so for a single channel the binding can be
\* undone: xor(hdc_encode_multi_channel([v], 1, [b]), b) = hdc_encode_adc(v).
C29_InPlaceIsSafe ==
    /\ (log # <<>> /\ LastCall.fn \in {"hdc_xor", "hdc_or", "hdc_and"}
           /\ LastCall.dst \in {LastCall.x, LastCall.y}) =>
           LET distinct == WithDistinctResult(LastCall, LastCall.pre)
           IN  CASE Completed(distinct) -> mem[LastCall.dst] = distinct["temp"]
    /\ (Len(log) = 2 /\ PrevCall.fn = "hdc_encode_multi_channel") =>
           LET adc == hdc_encode_adc(mem, "temp", scal.values[0])
           IN  CASE Completed(adc) -> mem["result"] = adc["temp"]

\* the reading 512 encoded with an irregular basis vector and unbound in
\* place: the bound vector was not the thermometer code, the unbound one is
C29_Witness ==
    /\ Len(log) = 2
    /\ PrevCall.fn = "hdc_encode_multi_channel"
    /\ <<LastCall.fn, LastCall.dst, LastCall.x, LastCall.y>>
           = <<"hdc_xor", "result", "result", "b">>
    /\ scal.values[0] = 512
    /\ mem["b"] = Mixed(1)
    /\ LastCall.pre["result"] # mem["result"]
    /\ hdc_popcount(mem["result"]) = 64
    /\ \A n \in BitIdx : BitOf(mem["result"], n) = (IF n < 64 THEN 1 ELSE 0)

(***************************************************************************)
(* The averaged reading, under SpecAveraged                                *)
(***************************************************************************)
\* C30: for samples >= 1, hal_adc_read_averaged returns either a valid
\* reading in 0..1023 or ADC_ERROR_VALUE (0xFFFF): whatever subset of the
\* conversions times out, the result is never a value strictly between 1023
\* and 0xFFFF, and the 32-bit sum never wraps for up to 255 samples.
C30_AveragedValidOrError ==
    (hal.fn = "hal_adc_read_averaged" /\ hal.samples >= 1) =>
        /\ hal.sum = hal.total
        /\ Returned => (hal.ret \in 0 .. ADC_MAX_VALUE \/ hal.ret = ADC_ERROR_VALUE)

\* two samples, of which one conversion timed out and the other read 1023:
\* the value returned is 33279
C30_MixedAverage ==
    /\ Returned
    /\ hal.fn = "hal_adc_read_averaged"
    /\ hal.samples = 2
    /\ hal.sum = ADC_ERROR_VALUE + ADC_MAX_VALUE
    /\ hal.ret = 33279

\* the sum of hal_adc_read_averaged never wraps
C30_SumExact == (hal.fn = "hal_adc_read_averaged") => hal.sum = hal.total

====
